---- MODULE Spec2Model ----
(***************************************************************************)
(* Model of the WebAssembly in-place interpreter metadata generator        *)
(* (JavaScriptCore/wasm/WasmIPIntGenerator.cpp).                           *)
(*                                                                         *)
(* The generator is a set of callbacks driven by FunctionParser.  The      *)
(* state is the generator's FunctionIPIntMetadataGenerator (metadata byte  *)
(* vector, argument locations, counters), the parser's control stack of    *)
(* IPIntControlType records, its expression stack depth, its offset and    *)
(* its position in the parse.                                              *)
(***************************************************************************)
EXTENDS Integers, Sequences, FiniteSets, TLC

VARIABLES
    CPU,                    \* build target: selects the #if branch of maxGPRs
    signature,              \* the function's signature (TypeDefinition)
    m_metadata,             \* FunctionIPIntMetadataGenerator::m_metadata (bytes)
    m_numLocals,
    m_numArguments,
    m_numArgumentsOnStack,
    m_argumentLocations,
    m_nonArgLocalOffset,
    m_bytecodeOffset,
    m_bytecodeLength,
    offset,                 \* m_parser->offset()
    controlStack,           \* parser's m_controlStack (top is the last element)
    expressionStack,        \* size of the parser's m_expressionStack
    m_unreachableBlocks,    \* parser's unreachable nesting counter
    pc,                     \* position of the parser: args, locals, body, endIf, done
    written,                \* byte offsets of m_metadata that some write has filled
    branchLog,              \* history: one record per branch entry emitted
    scopeLog,               \* history: one record per scope opened
    entryLog,               \* history: one record per local.get, local.set and call entry
    patchLog,               \* history: one record per write made by an else or an end
    lastOp,                 \* the opcode whose callback ran last
    result,                 \* PartialResult of the last callback
    instrs                  \* number of opcodes parsed so far

vars == <<CPU, signature, m_metadata, m_numLocals, m_numArguments,
          m_numArgumentsOnStack, m_argumentLocations, m_nonArgLocalOffset,
          m_bytecodeOffset, m_bytecodeLength, offset, controlStack,
          expressionStack, m_unreachableBlocks, pc, written, branchLog,
          scopeLog, entryLog, patchLog, lastOp, result, instrs>>

argVars == <<m_numLocals, m_numArguments, m_numArgumentsOnStack,
             m_argumentLocations, m_nonArgLocalOffset>>

ghostVars == <<written, branchLog, scopeLog, entryLog, patchLog>>

----------------------------------------------------------------------------
(* Bounds of the exploration                                               *)

MaxArgs == 9            \* longest signature explored by SpecArgs
MaxShortArgs == 3       \* longest signature over the full type palette
MaxInstrs == 4          \* opcodes per function body
MaxDepth == 3           \* open scopes, the top level included
MaxStack == 2           \* operand stack depth
MaxTable == 1           \* explicit targets of a br_table
MaxLocalGroups == 1     \* groups of declared locals
MaxUnreachable == 2     \* nesting of scopes skipped as unreachable
MaxLocalOps == 2        \* local.get and local.set opcodes per function body
MaxOperandOps == 2      \* instructions with immediates per body of SpecEncoders

----------------------------------------------------------------------------
(* Types and signatures                                                    *)

Platforms == {"X86_64", "ARM64", "OTHER"}

ArgTypes == {"I32", "I64", "F32", "F64", "Funcref"}

LongArgTypes == {"I64", "F32", "Funcref"}

isI32(t) == t = "I32"
isI64(t) == t = "I64"
isF32(t) == t = "F32"
isF64(t) == t = "F64"

SeqsUpTo(S, n) == UNION {[1..k -> S] : k \in 0..n}

FunctionSignature(args, rets) == [args |-> args, rets |-> rets]

argumentCount(sig) == Len(sig.args)
returnCount(sig) == Len(sig.rets)

Min(a, b) == IF a < b THEN a ELSE b

----------------------------------------------------------------------------
(* Metadata buffer: a vector of bytes, offsets counted from 0              *)

\* conversion of src to the w-byte unsigned type.  Every 4- and 8-byte
\* value of the model is a small non-negative offset, size or index, which
\* the conversion leaves as it is; 1- and 2-byte fields wrap.
UInt16Range == 65536

Truncate(src, w) == IF w = 1 THEN src % 256
                    ELSE IF w = 2 THEN src % UInt16Range
                    ELSE src

ByteAt(v, i) == IF i = 0 THEN v % 256
                ELSE IF i = 1 THEN (v \div 256) % 256
                ELSE IF i = 2 THEN (v \div 65536) % 256
                ELSE IF i = 3 THEN (v \div 16777216) % 256
                ELSE 0

\* WRITE_TO_METADATA(dst, src, type): src converted to the w-byte unsigned
\* type, then copied over the w bytes at dst; the size of the vector is
\* not changed.
WRITE_TO_METADATA(md, dst, src, w) ==
    LET v == Truncate(src, w)
    IN  [i \in 1..Len(md) |->
            IF i - 1 >= dst /\ i - 1 < dst + w THEN ByteAt(v, i - 1 - dst)
            ELSE md[i]]

\* the offsets a write of w bytes at dst fills
Filled(dst, w) == {dst + k : k \in 0..(w - 1)}

\* value of the w-byte unsigned field at off
ReadField(md, off, w) ==
    IF w = 2 THEN md[off + 1] + 256 * md[off + 2]
    ELSE md[off + 1] + 256 * md[off + 2] + 65536 * md[off + 3]
         + 16777216 * md[off + 4]

\* a write performed by a callback: w bytes of src at offset dst
W(dst, src, w) == [dst |-> dst, src |-> src, w |-> w]

RECURSIVE ApplyWrites(_, _)
ApplyWrites(md, ws) ==
    IF ws = <<>> THEN md
    ELSE ApplyWrites(WRITE_TO_METADATA(md, Head(ws).dst, Head(ws).src, Head(ws).w),
                     Tail(ws))

FilledBy(ws) == UNION {Filled(ws[i].dst, ws[i].w) : i \in DOMAIN ws}

\* addBlankSpace(n): n zero bytes appended
addBlankSpace(md, n) == md \o [i \in 1..n |-> 0]

roundUpToMultipleOf(m, n) == ((n + m - 1) \div m) * m

\* addRawValue(v): one 8-byte entry holding v
addRawValue(md, v) ==
    LET ws == <<W(Len(md), v, 8)>>
    IN  [md |-> ApplyWrites(addBlankSpace(md, 8), ws), ws |-> ws]

\* addLEB128ConstantInt32AndLength(v, len): 4B value, 4B instruction length
addLEB128ConstantInt32AndLength(md, v, len) ==
    LET ws == <<W(Len(md), v, 4), W(Len(md) + 4, len, 4)>>
    IN  [md |-> ApplyWrites(addBlankSpace(md, 8), ws), ws |-> ws]

\* tag of a value type in the Return Data
TypeTag(t) == IF t = "I32" THEN 127 ELSE IF t = "I64" THEN 126
              ELSE IF t = "F32" THEN 125 ELSE IF t = "F64" THEN 124 ELSE 112

\* addReturnData(types): 2B total size, 1B per returned value, rounded up
\* to whole 8-byte entries
addReturnData(md, types) ==
    LET size == Len(md)
        n == roundUpToMultipleOf(8, Len(types) + 2)
        ws == <<W(size, n, 2)>>
              \o [i \in 1..Len(types) |-> W(size + 1 + i, TypeTag(types[i]), 1)]
    IN  [md |-> ApplyWrites(addBlankSpace(md, n), ws), ws |-> ws]

----------------------------------------------------------------------------
(* IPIntGenerator::addArguments                                            *)

\* the platform's integer and float argument register counts
maxGPRs(cpu) == IF cpu = "X86_64" THEN 6 ELSE IF cpu = "ARM64" THEN 8 ELSE 0
maxFPRs == 8

\* state of the loop of addArguments before parameter 1
ArgLoopInit(sig) ==
    [numGPR |-> 0, numFPR |-> 0, stackOffset |-> 16, onStack |-> 0,
     locs |-> [i \in 1..argumentCount(sig) |-> 0]]

\* variant: every stack-passed parameter is given the first stack slot
ArgLoopStep_stackSlotFixed(st, arg, i) ==
    IF isI32(arg) \/ isI64(arg)
    THEN IF st.numGPR < 8
         THEN [st EXCEPT !.locs[i] = st.numGPR, !.numGPR = @ + 1]
         ELSE [st EXCEPT !.locs[i] = st.stackOffset, !.onStack = @ + 1]
    ELSE IF st.numFPR < 8
         THEN [st EXCEPT !.locs[i] = 8 + st.numFPR, !.numFPR = @ + 1]
         ELSE [st EXCEPT !.locs[i] = st.stackOffset, !.onStack = @ + 1]

\* variant: sixteen float register slots
ArgLoopStep_sixteenFPRs(st, arg, i) ==
    IF isI32(arg) \/ isI64(arg)
    THEN IF st.numGPR < 8
         THEN [st EXCEPT !.locs[i] = st.numGPR, !.numGPR = @ + 1]
         ELSE [st EXCEPT !.locs[i] = st.stackOffset, !.stackOffset = @ + 1,
                         !.onStack = @ + 1]
    ELSE IF st.numFPR < 16
         THEN [st EXCEPT !.locs[i] = 8 + st.numFPR, !.numFPR = @ + 1]
         ELSE [st EXCEPT !.locs[i] = st.stackOffset, !.stackOffset = @ + 1,
                         !.onStack = @ + 1]

\* one iteration of the loop of addArguments, for parameter i (1-based)
ArgLoopStep(st, arg, i) ==
    IF isI32(arg) \/ isI64(arg)
    THEN IF st.numGPR < 8
         THEN [st EXCEPT !.locs[i] = st.numGPR, !.numGPR = @ + 1]
         ELSE [st EXCEPT !.locs[i] = st.stackOffset, !.stackOffset = @ + 1,
                         !.onStack = @ + 1]
    ELSE IF st.numFPR < 8
         THEN [st EXCEPT !.locs[i] = 8 + st.numFPR, !.numFPR = @ + 1]
         ELSE [st EXCEPT !.locs[i] = st.stackOffset, !.stackOffset = @ + 1,
                         !.onStack = @ + 1]

RECURSIVE ArgLoop(_, _)
ArgLoop(sig, n) ==
    IF n = 0 THEN ArgLoopInit(sig)
    ELSE ArgLoopStep(ArgLoop(sig, n - 1), sig.args[n], n)

addArguments ==
    /\ pc = "args" /\ result = "success"
    /\ LET numArgs == argumentCount(signature)
           st == ArgLoop(signature, numArgs)
       IN  /\ m_numLocals' = m_numLocals + numArgs
           /\ m_numArguments' = numArgs
           /\ m_argumentLocations' = st.locs
           /\ m_numArgumentsOnStack' = m_numArgumentsOnStack + st.onStack
           /\ m_nonArgLocalOffset' = 16 + (m_numArgumentsOnStack + st.onStack) - numArgs
    /\ pc' = "locals"
    /\ lastOp' = "addArguments"
    /\ result' = "success"
    /\ UNCHANGED <<CPU, signature, m_metadata, m_bytecodeOffset, m_bytecodeLength,
                   offset, controlStack, expressionStack, m_unreachableBlocks,
                   written, branchLog, scopeLog, entryLog, patchLog, instrs>>

----------------------------------------------------------------------------
(* IPIntControlType                                                        *)

ControlType(sig, blockType) ==
    [m_signature |-> sig, m_blockType |-> blockType, m_catchKind |-> "Catch",
     m_awaitingUpdate |-> <<>>, m_pendingOffset |-> -1, m_pc |-> -1, m_mc |-> -1]

isIf(control) == control.m_blockType = "If"
isTopLevel(control) == control.m_blockType = "TopLevel"
isLoop(control) == control.m_blockType = "Loop"
isBlock(control) == control.m_blockType = "Block"

\* branchTargetArity without the loop case
branchTargetArity_resultsOnly(control) == returnCount(control.m_signature)

branchTargetArity(control) ==
    IF isLoop(control) THEN argumentCount(control.m_signature)
    ELSE returnCount(control.m_signature)

branchTargetType(control, i) ==
    IF control.m_blockType = "Loop" THEN control.m_signature.args[i]
    ELSE control.m_signature.rets[i]

----------------------------------------------------------------------------
(* Callbacks.  curPC is m_parser->offset() - m_bytecodeOffset at the time   *)
(* of the call; each callback yields the new metadata, the writes it        *)
(* performed, the control data it leaves and the PartialResult it returns.  *)

addTopLevel(sig) == ControlType(sig, "TopLevel")

addBlock(md, sig, curPC) ==
    LET raw == addRawValue(md, curPC)
    IN  [md |-> raw.md, ws |-> raw.ws, block |-> ControlType(sig, "Block"),
         result |-> "success"]

\* addLoop capturing m_mc before the loop's own entry is appended
addLoop_mcBeforeEntry(md, sig, curPC) ==
    LET raw == addRawValue(md, curPC)
    IN  [md |-> raw.md, ws |-> raw.ws,
         block |-> [ControlType(sig, "Loop") EXCEPT
                        !.m_pendingOffset = -1,
                        !.m_pc = curPC,
                        !.m_mc = Len(md)],
         result |-> "success"]

addLoop(md, sig, curPC) ==
    LET raw == addRawValue(md, curPC)
    IN  [md |-> raw.md, ws |-> raw.ws,
         block |-> [ControlType(sig, "Loop") EXCEPT
                        !.m_pendingOffset = -1,
                        !.m_pc = curPC,
                        !.m_mc = Len(raw.md)],
         result |-> "success"]

\* variant: the pending offset of an if is that of its PC entry
addIf_pendingAtEntry(md, sig, curPC) ==
    LET raw == addRawValue(addBlankSpace(md, 8), curPC)
    IN  [md |-> raw.md, ws |-> raw.ws,
         block |-> [ControlType(sig, "If") EXCEPT !.m_pendingOffset = Len(md) + 8],
         result |-> "success"]

addIf(md, sig, curPC) ==
    LET raw == addRawValue(addBlankSpace(md, 8), curPC)
    IN  [md |-> raw.md, ws |-> raw.ws,
         block |-> [ControlType(sig, "If") EXCEPT !.m_pendingOffset = Len(md)],
         result |-> "success"]

\* addElseToUnreachable pointing the if at the else's own placeholder
addElseToUnreachable_mcAtPlaceholder(md, block, curPC, currentOpcode) ==
    IF currentOpcode = "End"
    THEN LET ws == <<W(block.m_pendingOffset, curPC, 4),
                     W(block.m_pendingOffset + 4, Len(md), 4)>>
         IN  [md |-> ApplyWrites(md, ws), ws |-> ws, patches |-> ws,
              block |-> [ControlType(block.m_signature, "Block") EXCEPT
                             !.m_pendingOffset = -1],
              result |-> "success"]
    ELSE LET ws == <<W(block.m_pendingOffset, curPC, 4),
                     W(block.m_pendingOffset + 4, Len(md), 4)>>
         IN  [md |-> addBlankSpace(ApplyWrites(md, ws), 8), ws |-> ws, patches |-> ws,
              block |-> [ControlType(block.m_signature, "Block") EXCEPT
                             !.m_pendingOffset = Len(md)],
              result |-> "success"]

\* addElseToUnreachable without the edge case of an if that has no else
addElseToUnreachable_alwaysAllocates(md, block, curPC, currentOpcode) ==
    LET ws == <<W(block.m_pendingOffset, curPC, 4),
                W(block.m_pendingOffset + 4, Len(md) + 8, 4)>>
    IN  [md |-> addBlankSpace(ApplyWrites(md, ws), 8), ws |-> ws, patches |-> ws,
         block |-> [ControlType(block.m_signature, "Block") EXCEPT
                        !.m_pendingOffset = Len(md)],
         result |-> "success"]

\* patches are the writes over bytes allocated before the callback
\* variant: an if closed without else keeps its pending placeholder
addElseToUnreachable_pendingKept(md, block, curPC, currentOpcode) ==
    IF currentOpcode = "End"
    THEN LET ws == <<W(block.m_pendingOffset, curPC, 4),
                     W(block.m_pendingOffset + 4, Len(md), 4)>>
         IN  [md |-> ApplyWrites(md, ws), ws |-> ws, patches |-> ws,
              block |-> [ControlType(block.m_signature, "Block") EXCEPT
                             !.m_pendingOffset = block.m_pendingOffset],
              result |-> "success"]
    ELSE LET ws == <<W(block.m_pendingOffset, curPC, 4),
                     W(block.m_pendingOffset + 4, Len(md) + 8, 4)>>
         IN  [md |-> addBlankSpace(ApplyWrites(md, ws), 8), ws |-> ws, patches |-> ws,
              block |-> [ControlType(block.m_signature, "Block") EXCEPT
                             !.m_pendingOffset = Len(md)],
              result |-> "success"]

addElseToUnreachable(md, block, curPC, currentOpcode) ==
    IF currentOpcode = "End"
    THEN LET ws == <<W(block.m_pendingOffset, curPC, 4),
                     W(block.m_pendingOffset + 4, Len(md), 4)>>
         IN  [md |-> ApplyWrites(md, ws), ws |-> ws, patches |-> ws,
              block |-> [ControlType(block.m_signature, "Block") EXCEPT
                             !.m_pendingOffset = -1],
              result |-> "success"]
    ELSE LET ws == <<W(block.m_pendingOffset, curPC, 4),
                     W(block.m_pendingOffset + 4, Len(md) + 8, 4)>>
         IN  [md |-> addBlankSpace(ApplyWrites(md, ws), 8), ws |-> ws, patches |-> ws,
              block |-> [ControlType(block.m_signature, "Block") EXCEPT
                             !.m_pendingOffset = Len(md)],
              result |-> "success"]

addElse(md, block, curPC, currentOpcode) ==
    addElseToUnreachable(md, block, curPC, currentOpcode)

\* addTry(signature): a Try scope, nothing appended
addTry(md, sig) ==
    [md |-> md, ws |-> <<>>, block |-> ControlType(sig, "Try"), result |-> "success"]

\* addCatchToUnreachable(exceptionSignature, block): the scope is rebuilt
\* as a Catch scope of the same signature
addCatchToUnreachable(md, exceptionSignature, block) ==
    [md |-> md, ws |-> <<>>, block |-> ControlType(block.m_signature, "Catch"),
     results |-> argumentCount(exceptionSignature), result |-> "success"]

addCatch(md, exceptionSignature, block) ==
    addCatchToUnreachable(md, exceptionSignature, block)

\* variant: catch_all rebuilds the scope as a Block
addCatchAllToUnreachable_asBlock(md, block) ==
    [md |-> md, ws |-> <<>>,
     block |-> [ControlType(block.m_signature, "Block") EXCEPT !.m_catchKind = "CatchAll"],
     results |-> 0, result |-> "success"]

\* addCatchAllToUnreachable(block): rebuilt as a Catch scope of kind CatchAll
addCatchAllToUnreachable(md, block) ==
    [md |-> md, ws |-> <<>>,
     block |-> [ControlType(block.m_signature, "Catch") EXCEPT !.m_catchKind = "CatchAll"],
     results |-> 0, result |-> "success"]

addCatchAll(md, block) == addCatchAllToUnreachable(md, block)

\* variant: a branch to a loop writes the loop's m_pc and m_mc at once
\* and is not registered
addBranch_loopTargetAtOnce(md, cs, k, stackSize, curPC) ==
    LET size == Len(md)
        block == cs[k].controlData
        ws == (IF isLoop(block)
               THEN <<W(size, block.m_pc, 4), W(size + 4, block.m_mc, 4)>>
               ELSE <<>>)
              \o <<W(size + 8, stackSize - branchTargetArity(block), 2),
                    W(size + 10, branchTargetArity(block), 2),
                    W(size + 12, curPC, 4)>>
    IN  [md |-> ApplyWrites(addBlankSpace(md, 16), ws), ws |-> ws,
         cs |-> IF isLoop(block) THEN cs
                ELSE [cs EXCEPT ![k].controlData.m_awaitingUpdate = Append(@, size)],
         result |-> "success"]

\* addBranch recording the PC of the branch opcode as the resume PC
addBranch_resumeAtBranch(md, cs, k, stackSize, curPC) ==
    LET size == Len(md)
        block == cs[k].controlData
        ws == <<W(size + 8, stackSize - branchTargetArity(block), 2),
                W(size + 10, branchTargetArity(block), 2),
                W(size + 12, curPC - 2, 4)>>
    IN  [md |-> ApplyWrites(addBlankSpace(md, 16), ws), ws |-> ws,
         cs |-> [cs EXCEPT ![k].controlData.m_awaitingUpdate = Append(@, size)],
         result |-> "success"]

\* addBranch refusing a branch that carries values
addBranch_failsOnValues(md, cs, k, stackSize, curPC) ==
    LET size == Len(md)
        block == cs[k].controlData
        ws == <<W(size + 8, stackSize - branchTargetArity(block), 2),
                W(size + 10, branchTargetArity(block), 2),
                W(size + 12, curPC, 4)>>
    IN  [md |-> ApplyWrites(addBlankSpace(md, 16), ws), ws |-> ws,
         cs |-> [cs EXCEPT ![k].controlData.m_awaitingUpdate = Append(@, size)],
         result |-> IF branchTargetArity(block) > 0 THEN "error" ELSE "success"]

\* addBranch: block is the control data of controlStack entry k
addBranch(md, cs, k, stackSize, curPC) ==
    LET size == Len(md)
        block == cs[k].controlData
        ws == <<W(size + 8, stackSize - branchTargetArity(block), 2),
                W(size + 10, branchTargetArity(block), 2),
                W(size + 12, curPC, 4)>>
    IN  [md |-> ApplyWrites(addBlankSpace(md, 16), ws), ws |-> ws,
         cs |-> [cs EXCEPT ![k].controlData.m_awaitingUpdate = Append(@, size)],
         result |-> "success"]

\* one 16-byte entry of addSwitch, for the jump to controlStack entry k
SwitchEntry(st, k, stackSize, curPC) ==
    LET jumpBase == Len(st.md)
        block == st.cs[k].controlData
        ws == <<W(jumpBase + 8, stackSize - branchTargetArity(block), 2),
                W(jumpBase + 10, branchTargetArity(block), 2),
                W(jumpBase + 12, curPC, 4)>>
    IN  [md |-> ApplyWrites(addBlankSpace(st.md, 16), ws), ws |-> st.ws \o ws,
         cs |-> [st.cs EXCEPT ![k].controlData.m_awaitingUpdate = Append(@, jumpBase)],
         result |-> "success"]

RECURSIVE SwitchLoop(_, _, _, _, _)
SwitchLoop(st, jumps, n, stackSize, curPC) ==
    IF n = 0 THEN st
    ELSE SwitchEntry(SwitchLoop(st, jumps, n - 1, stackSize, curPC),
                     jumps[n], stackSize, curPC)

\* variant: every entry of the table is registered in the default target
addSwitch_allToDefault(md, cs, jumps, defaultJump, stackSize, curPC) ==
    LET size == Len(md)
        hd == <<W(size, Len(jumps) + 1, 8)>>
        st0 == [md |-> ApplyWrites(addBlankSpace(md, 8), hd), ws |-> hd, cs |-> cs]
        st1 == SwitchLoop(st0, [i \in DOMAIN jumps |-> defaultJump], Len(jumps),
                          stackSize, curPC)
    IN  SwitchEntry(st1, defaultJump, stackSize, curPC)

\* addSwitch: jumps and defaultJump are positions in the control stack
addSwitch(md, cs, jumps, defaultJump, stackSize, curPC) ==
    LET size == Len(md)
        hd == <<W(size, Len(jumps) + 1, 8)>>
        st0 == [md |-> ApplyWrites(addBlankSpace(md, 8), hd), ws |-> hd, cs |-> cs]
        st1 == SwitchLoop(st0, jumps, Len(jumps), stackSize, curPC)
    IN  SwitchEntry(st1, defaultJump, stackSize, curPC)

\* the writes that resolve every awaiting offset to (pcv, mcv)
\* variant: the MC of an awaiting entry is stored at byte 8 of the entry
ResolveAll_mcAtByte8(awaiting, pcv, mcv) ==
    [j \in 1..(2 * Len(awaiting)) |->
        IF j % 2 = 1 THEN W(awaiting[(j + 1) \div 2], pcv, 4)
        ELSE W(awaiting[j \div 2] + 8, mcv, 4)]

ResolveAll(awaiting, pcv, mcv) ==
    [j \in 1..(2 * Len(awaiting)) |->
        IF j % 2 = 1 THEN W(awaiting[(j + 1) \div 2], pcv, 4)
        ELSE W(awaiting[j \div 2] + 4, mcv, 4)]

\* addEndToUnreachable appending Return Data at the end of every scope and
\* pointing the branches to the top level past it
addEndToUnreachable_returnDataEverywhere(md, block, curPC, off, len) ==
    LET types == [i \in 1..branchTargetArity(block) |-> branchTargetType(block, i)]
        ret == addReturnData(md, types)
        ws == IF isTopLevel(block)
              THEN ResolveAll(block.m_awaitingUpdate, curPC - 1, Len(ret.md))
              ELSE IF isLoop(block)
              THEN ResolveAll(block.m_awaitingUpdate, block.m_pc, block.m_mc)
              ELSE IF isBlock(block) /\ block.m_pendingOffset = -1
              THEN ResolveAll(block.m_awaitingUpdate, curPC - 1, Len(md))
              ELSE IF isBlock(block)
              THEN <<W(block.m_pendingOffset, curPC - 1, 4),
                     W(block.m_pendingOffset + 4, Len(md), 4)>>
              ELSE <<>>
    IN  [md |-> ApplyWrites(ret.md, ws), ws |-> ws \o ret.ws, patches |-> ws,
         len |-> IF isTopLevel(block) THEN off ELSE len, result |-> "success"]

\* addEndToUnreachable writing the pending pair of a block without testing
\* m_pendingOffset against -1
addEndToUnreachable_pendingUntested(md, block, curPC, off, len) ==
    IF isBlock(block) \/ isIf(block)
    THEN LET ws == <<W(block.m_pendingOffset, curPC - 1, 4),
                     W(block.m_pendingOffset + 4, Len(md), 4)>>
         IN  [md |-> ApplyWrites(md, ws), ws |-> ws, patches |-> ws, len |-> len,
              result |-> "success"]
    ELSE IF isLoop(block)
    THEN LET ws == ResolveAll(block.m_awaitingUpdate, block.m_pc, block.m_mc)
         IN  [md |-> ApplyWrites(md, ws), ws |-> ws, patches |-> ws, len |-> len,
              result |-> "success"]
    ELSE IF isTopLevel(block)
    THEN LET ws == ResolveAll(block.m_awaitingUpdate, curPC - 1, Len(md))
             types == [i \in 1..branchTargetArity(block) |-> branchTargetType(block, i)]
             ret == addReturnData(ApplyWrites(md, ws), types)
         IN  [md |-> ret.md, ws |-> ws \o ret.ws, patches |-> ws, len |-> off,
              result |-> "success"]
    ELSE [md |-> md, ws |-> <<>>, patches |-> <<>>, len |-> len, result |-> "success"]

\* variant: the placeholder of an else gets the PC after the end opcode
addEndToUnreachable_endPCAfter(md, block, curPC, off, len) ==
    IF isBlock(block) /\ block.m_pendingOffset # -1
    THEN LET ws == <<W(block.m_pendingOffset, curPC, 4),
                     W(block.m_pendingOffset + 4, Len(md), 4)>>
         IN  [md |-> ApplyWrites(md, ws), ws |-> ws, patches |-> ws, len |-> len,
              result |-> "success"]
    ELSE IF isLoop(block)
    THEN LET ws == ResolveAll(block.m_awaitingUpdate, block.m_pc, block.m_mc)
         IN  [md |-> ApplyWrites(md, ws), ws |-> ws, patches |-> ws, len |-> len,
              result |-> "success"]
    ELSE IF isTopLevel(block)
    THEN LET ws == ResolveAll(block.m_awaitingUpdate, curPC - 1, Len(md))
             types == [i \in 1..branchTargetArity(block) |-> branchTargetType(block, i)]
             ret == addReturnData(ApplyWrites(md, ws), types)
         IN  [md |-> ret.md, ws |-> ws \o ret.ws, patches |-> ws, len |-> off,
              result |-> "success"]
    ELSE IF isBlock(block)
    THEN LET ws == ResolveAll(block.m_awaitingUpdate, curPC - 1, Len(md))
         IN  [md |-> ApplyWrites(md, ws), ws |-> ws, patches |-> ws, len |-> len,
              result |-> "success"]
    ELSE [md |-> md, ws |-> <<>>, patches |-> <<>>, len |-> len, result |-> "success"]

\* addEndToUnreachable: block is entry.controlData, off is m_parser->offset();
\* patches are the writes over bytes allocated before the callback
\* variant: the branches to a loop are pointed at the loop's end
addEndToUnreachable_loopExit(md, block, curPC, off, len) ==
    IF isIf(block)
    THEN LET ws == <<W(block.m_pendingOffset, curPC - 1, 4),
                     W(block.m_pendingOffset + 4, Len(md), 4)>>
         IN  [md |-> ApplyWrites(md, ws), ws |-> ws, patches |-> ws, len |-> len,
              result |-> "success"]
    ELSE IF isBlock(block)
    THEN IF block.m_pendingOffset # -1
         THEN LET ws == <<W(block.m_pendingOffset, curPC - 1, 4),
                          W(block.m_pendingOffset + 4, Len(md), 4)>>
              IN  [md |-> ApplyWrites(md, ws), ws |-> ws, patches |-> ws, len |-> len,
                   result |-> "success"]
         ELSE LET ws == ResolveAll(block.m_awaitingUpdate, curPC - 1, Len(md))
              IN  [md |-> ApplyWrites(md, ws), ws |-> ws, patches |-> ws, len |-> len,
                   result |-> "success"]
    ELSE IF isLoop(block)
    THEN LET ws == ResolveAll(block.m_awaitingUpdate, curPC - 1, Len(md))
         IN  [md |-> ApplyWrites(md, ws), ws |-> ws, patches |-> ws, len |-> len,
              result |-> "success"]
    ELSE IF isTopLevel(block)
    THEN LET ws == ResolveAll(block.m_awaitingUpdate, curPC - 1, Len(md))
             types == [i \in 1..branchTargetArity(block) |-> branchTargetType(block, i)]
             ret == addReturnData(ApplyWrites(md, ws), types)
         IN  [md |-> ret.md, ws |-> ws \o ret.ws, patches |-> ws, len |-> off,
              result |-> "success"]
    ELSE [md |-> md, ws |-> <<>>, patches |-> <<>>, len |-> len, result |-> "success"]

addEndToUnreachable(md, block, curPC, off, len) ==
    IF isIf(block)
    THEN LET ws == <<W(block.m_pendingOffset, curPC - 1, 4),
                     W(block.m_pendingOffset + 4, Len(md), 4)>>
         IN  [md |-> ApplyWrites(md, ws), ws |-> ws, patches |-> ws, len |-> len,
              result |-> "success"]
    ELSE IF isBlock(block)
    THEN IF block.m_pendingOffset # -1
         THEN LET ws == <<W(block.m_pendingOffset, curPC - 1, 4),
                          W(block.m_pendingOffset + 4, Len(md), 4)>>
              IN  [md |-> ApplyWrites(md, ws), ws |-> ws, patches |-> ws, len |-> len,
                   result |-> "success"]
         ELSE LET ws == ResolveAll(block.m_awaitingUpdate, curPC - 1, Len(md))
              IN  [md |-> ApplyWrites(md, ws), ws |-> ws, patches |-> ws, len |-> len,
                   result |-> "success"]
    ELSE IF isLoop(block)
    THEN LET ws == ResolveAll(block.m_awaitingUpdate, block.m_pc, block.m_mc)
         IN  [md |-> ApplyWrites(md, ws), ws |-> ws, patches |-> ws, len |-> len,
              result |-> "success"]
    ELSE IF isTopLevel(block)
    THEN LET ws == ResolveAll(block.m_awaitingUpdate, curPC - 1, Len(md))
             types == [i \in 1..branchTargetArity(block) |-> branchTargetType(block, i)]
             ret == addReturnData(ApplyWrites(md, ws), types)
         IN  [md |-> ret.md, ws |-> ws \o ret.ws, patches |-> ws, len |-> off,
              result |-> "success"]
    ELSE [md |-> md, ws |-> <<>>, patches |-> <<>>, len |-> len, result |-> "success"]

endBlock(md, block, curPC, off, len) == addEndToUnreachable(md, block, curPC, off, len)

----------------------------------------------------------------------------
(* Callbacks of the operand-bearing and operand-free instructions          *)

\* m_info.globals: binding mode and type of the module's globals
GlobalIndices == {0, 1, 2, 300}

GlobalInformation(bindingMode, type) == [bindingMode |-> bindingMode, type |-> type]

globals ==
    [index \in GlobalIndices |->
        IF index = 0 THEN GlobalInformation("EmbeddedInInstance", "I32")
        ELSE IF index = 1 THEN GlobalInformation("Portable", "Funcref")
        ELSE IF index = 2 THEN GlobalInformation("EmbeddedInInstance", "Externref")
        ELSE GlobalInformation("Portable", "F64")]

isRefType(t) == t \in {"Funcref", "Externref"}

\* the tag the switch on global.bindingMode writes
BindingModeTag(global) == IF global.bindingMode = "EmbeddedInInstance" THEN 0 ELSE 1

\* getGlobal(index): len is getCurrentInstructionLength()
getGlobal(md, index, len) ==
    LET size == Len(md)
        global == globals[index]
        ws == <<W(size, index, 4), W(size + 4, len, 2),
                W(size + 6, BindingModeTag(global), 2)>>
    IN  [md |-> ApplyWrites(addBlankSpace(md, 8), ws), ws |-> ws, result |-> "success"]

\* variant: the flag at byte 7 repeats the binding-mode tag
setGlobal_flagFromBinding(md, index, len) ==
    LET size == Len(md)
        global == globals[index]
        ws == <<W(size, index, 4), W(size + 4, len, 2),
                W(size + 6, BindingModeTag(global), 1),
                W(size + 7, BindingModeTag(global), 1)>>
    IN  [md |-> ApplyWrites(addBlankSpace(md, 8), ws), ws |-> ws, result |-> "success"]

\* setGlobal(index): len is getCurrentInstructionLength()
setGlobal(md, index, len) ==
    LET size == Len(md)
        global == globals[index]
        ws == <<W(size, index, 4), W(size + 4, len, 2),
                W(size + 6, BindingModeTag(global), 1),
                W(size + 7, IF isRefType(globals[index].type) THEN 1 ELSE 0, 1)>>
    IN  [md |-> ApplyWrites(addBlankSpace(md, 8), ws), ws |-> ws, result |-> "success"]

\* getLocal recording the declared index of a non-argument local
getLocal_declaredIndex(md, index, len) ==
    LET r == IF index >= m_numArguments
             THEN addLEB128ConstantInt32AndLength(md, index, len)
             ELSE addLEB128ConstantInt32AndLength(md, m_argumentLocations[index + 1], len)
    IN  [md |-> r.md, ws |-> r.ws, result |-> "success"]

\* getLocal(index): len is getCurrentInstructionLength()
getLocal(md, index, len) ==
    LET r == IF index >= m_numArguments
             THEN addLEB128ConstantInt32AndLength(md, index + m_nonArgLocalOffset, len)
             ELSE addLEB128ConstantInt32AndLength(md, m_argumentLocations[index + 1], len)
    IN  [md |-> r.md, ws |-> r.ws, result |-> "success"]

setLocal(md, index, len) ==
    LET r == IF index >= m_numArguments
             THEN addLEB128ConstantInt32AndLength(md, index + m_nonArgLocalOffset, len)
             ELSE addLEB128ConstantInt32AndLength(md, m_argumentLocations[index + 1], len)
    IN  [md |-> r.md, ws |-> r.ws, result |-> "success"]

\* addDrop leaving an empty entry behind
addDrop_blankEntry(md) ==
    [md |-> addBlankSpace(md, 8), ws |-> <<>>, result |-> "success"]

addDrop(md) == [md |-> md, ws |-> <<>>, result |-> "success"]

addCurrentMemory(md) == [md |-> md, ws |-> <<>>, result |-> "success"]

addI32Add(md) == [md |-> md, ws |-> <<>>, result |-> "success"]

\* state of the loop of addCallCommonData before parameter 1; size is the
\* offset of the 32-byte register region
CallLoopInit(size) ==
    [gprsUsed |-> 0, fprsUsed |-> 0, locations |-> <<>>,
     ws |-> <<W(size, 0, 8), W(size + 8, 0, 8), W(size + 16, 0, 8), W(size + 24, 0, 8)>>]

\* variant: the float register slots start at byte 8 of the fixed region
CallLoopStep_floatsAtByte8(st, sig, i, size) ==
    LET argType == sig.args[i]
        stackOffset == Truncate(argumentCount(sig) - i, 2)
    IN  IF (isI32(argType) \/ isI64(argType)) /\ st.gprsUsed # maxGPRs(CPU)
        THEN [st EXCEPT !.ws = Append(@, W(size + 2 * st.gprsUsed, stackOffset, 2)),
                        !.gprsUsed = @ + 1]
        ELSE IF (isF32(argType) \/ isF64(argType)) /\ st.fprsUsed # maxFPRs
        THEN [st EXCEPT !.ws = Append(@, W(size + 8 + 2 * st.fprsUsed, stackOffset, 2)),
                        !.fprsUsed = @ + 1]
        ELSE [st EXCEPT !.locations = Append(@, stackOffset)]

\* one iteration of the loop of addCallCommonData, for parameter i (1-based);
\* stackOffset is a uint16_t that starts at argumentCount - 1 and counts down
CallLoopStep(st, sig, i, size) ==
    LET argType == sig.args[i]
        stackOffset == Truncate(argumentCount(sig) - i, 2)
    IN  IF (isI32(argType) \/ isI64(argType)) /\ st.gprsUsed # maxGPRs(CPU)
        THEN [st EXCEPT !.ws = Append(@, W(size + 2 * st.gprsUsed, stackOffset, 2)),
                        !.gprsUsed = @ + 1]
        ELSE IF (isF32(argType) \/ isF64(argType)) /\ st.fprsUsed # maxFPRs
        THEN [st EXCEPT !.ws = Append(@, W(size + 16 + 2 * st.fprsUsed, stackOffset, 2)),
                        !.fprsUsed = @ + 1]
        ELSE [st EXCEPT !.locations = Append(@, stackOffset)]

RECURSIVE CallLoop(_, _, _)
CallLoop(sig, n, size) ==
    IF n = 0 THEN CallLoopInit(size)
    ELSE CallLoopStep(CallLoop(sig, n - 1, size), sig, n, size)

\* addCallCommonData with the tail left as long as its fields
addCallCommonData_tailUnrounded(md, sig) ==
    LET size == Len(md)
        st == CallLoop(sig, argumentCount(sig), size)
        md1 == ApplyWrites(addBlankSpace(md, 32), st.ws)
        extraSize == Len(st.locations) * 2 + 6
        extra == Len(md1)
        ws2 == <<W(extra, extraSize, 2), W(extra + 2, argumentCount(sig), 2),
                 W(extra + 4, Len(st.locations), 2)>>
               \o [i \in 1..Len(st.locations) |->
                      W(extra + 6 + (i - 1) * 2, st.locations[i], 2)]
        md2 == ApplyWrites(addBlankSpace(md1, extraSize), ws2)
        ret == addReturnData(md2, sig.rets)
    IN  [md |-> ret.md, ws |-> st.ws \o ws2 \o ret.ws]

\* variant: the tail lists the stack-only arguments last to first
addCallCommonData_tailReversed(md, sig) ==
    LET size == Len(md)
        st == CallLoop(sig, argumentCount(sig), size)
        md1 == ApplyWrites(addBlankSpace(md, 32), st.ws)
        extraSize == roundUpToMultipleOf(8, Len(st.locations) * 2 + 6)
        extra == Len(md1)
        ws2 == <<W(extra, extraSize, 2), W(extra + 2, argumentCount(sig), 2),
                 W(extra + 4, Len(st.locations), 2)>>
               \o [i \in 1..Len(st.locations) |->
                      W(extra + 6 + (i - 1) * 2,
                        st.locations[Len(st.locations) + 1 - i], 2)]
        md2 == ApplyWrites(addBlankSpace(md1, extraSize), ws2)
        ret == addReturnData(md2, sig.rets)
    IN  [md |-> ret.md, ws |-> st.ws \o ws2 \o ret.ws]

\* addCallCommonData(signature): 32 bytes of register offsets, the tail of
\* stack-only arguments rounded up to whole entries, then the Return Data
\* uint16_t stackOffset = signature.argumentCount() - 1, before the loop
InitialStackOffset(sig) == Truncate(argumentCount(sig) - 1, 2)

\* variant: the initial stack offset is also stored in the last integer slot
addCallCommonData_initialOffsetStored(md, sig) ==
    LET size == Len(md)
        st == CallLoop(sig, argumentCount(sig), size)
        ws1 == st.ws \o <<W(size + 14, InitialStackOffset(sig), 2)>>
        md1 == ApplyWrites(addBlankSpace(md, 32), ws1)
        extraSize == roundUpToMultipleOf(8, Len(st.locations) * 2 + 6)
        extra == Len(md1)
        ws2 == <<W(extra, extraSize, 2), W(extra + 2, argumentCount(sig), 2),
                 W(extra + 4, Len(st.locations), 2)>>
               \o [i \in 1..Len(st.locations) |->
                      W(extra + 6 + (i - 1) * 2, st.locations[i], 2)]
        md2 == ApplyWrites(addBlankSpace(md1, extraSize), ws2)
        ret == addReturnData(md2, sig.rets)
    IN  [md |-> ret.md, ws |-> ws1 \o ws2 \o ret.ws]

addCallCommonData(md, sig) ==
    LET size == Len(md)
        st == CallLoop(sig, argumentCount(sig), size)
        md1 == ApplyWrites(addBlankSpace(md, 32), st.ws)
        extraSize == roundUpToMultipleOf(8, Len(st.locations) * 2 + 6)
        extra == Len(md1)
        ws2 == <<W(extra, extraSize, 2), W(extra + 2, argumentCount(sig), 2),
                 W(extra + 4, Len(st.locations), 2)>>
               \o [i \in 1..Len(st.locations) |->
                      W(extra + 6 + (i - 1) * 2, st.locations[i], 2)]
        md2 == ApplyWrites(addBlankSpace(md1, extraSize), ws2)
        ret == addReturnData(md2, sig.rets)
    IN  [md |-> ret.md, ws |-> st.ws \o ws2 \o ret.ws]

\* addCall(index, signature): newPC is the PC after the call
addCall(md, index, sig, newPC) ==
    LET size == Len(md)
        ws == <<W(size, index, 4), W(size + 4, newPC, 4)>>
        common == addCallCommonData(ApplyWrites(addBlankSpace(md, 8), ws), sig)
    IN  [md |-> common.md, ws |-> ws \o common.ws, result |-> "success"]

\* a type of the module: its FunctionSignature and the index under which
\* the metadata keeps it
TypeDefinition(index, sig) == [index |-> index, sig |-> sig]

\* FunctionIPIntMetadataGenerator::addSignature(type): the type's index
addSignature(type) == type.index

\* variant: the resume PC is stored in the reserved bytes
addCallIndirect_pcAtByte8(md, tableIndex, type, newPC) ==
    LET size == Len(md)
        ws == <<W(size, tableIndex, 4), W(size + 4, addSignature(type), 4),
                W(size + 8, newPC, 4)>>
        common == addCallCommonData(ApplyWrites(addBlankSpace(md, 16), ws), type.sig)
    IN  [md |-> common.md, ws |-> ws \o common.ws, result |-> "success"]

\* addCallIndirect(tableIndex, type): newPC is the PC after the call
addCallIndirect(md, tableIndex, type, newPC) ==
    LET size == Len(md)
        ws == <<W(size, tableIndex, 4), W(size + 4, addSignature(type), 4),
                W(size + 12, newPC, 4)>>
        common == addCallCommonData(ApplyWrites(addBlankSpace(md, 16), ws), type.sig)
    IN  [md |-> common.md, ws |-> ws \o common.ws, result |-> "success"]

\* a callback that appends the 8-byte entry of v and the instruction length
IndexAndLength(md, v, len) ==
    LET r == addLEB128ConstantInt32AndLength(md, v, len)
    IN  [md |-> r.md, ws |-> r.ws, result |-> "success"]

\* addLEB128ConstantAndLengthForType(type, value, len): 4B value and 4B
\* length for an i32, 8B value and 8B length for an i64
addLEB128ConstantAndLengthForType(md, type, value, len) ==
    IF isI32(type) THEN addLEB128ConstantInt32AndLength(md, value, len)
    ELSE LET ws == <<W(Len(md), value, 8), W(Len(md) + 8, len, 8)>>
         IN  [md |-> ApplyWrites(addBlankSpace(md, 16), ws), ws |-> ws]

\* addConstant(type, value): len is getCurrentInstructionLength()
addConstant(md, type, value, len) ==
    LET r == addLEB128ConstantAndLengthForType(md, type, value, len)
    IN  [md |-> r.md, ws |-> r.ws, result |-> "success"]

addRefFunc(md, index, len) == IndexAndLength(md, index, len)

addTableGet(md, index, len) == IndexAndLength(md, index, len)

addTableSet(md, index, len) == IndexAndLength(md, index, len)

addTableInit(md, elementIndex, tableIndex, len) ==
    LET size == Len(md)
        ws == <<W(size, elementIndex, 4), W(size + 4, tableIndex, 4), W(size + 8, len, 8)>>
    IN  [md |-> ApplyWrites(addBlankSpace(md, 16), ws), ws |-> ws, result |-> "success"]

addElemDrop(md, elementIndex, len) == IndexAndLength(md, elementIndex, len)

addTableSize(md, tableIndex, len) == IndexAndLength(md, tableIndex, len)

addTableGrow(md, tableIndex, len) == IndexAndLength(md, tableIndex, len)

addTableFill(md, tableIndex, len) == IndexAndLength(md, tableIndex, len)

\* variant: the source table is stored before the destination table
addTableCopy_srcFirst(md, dstTableIndex, srcTableIndex, len) ==
    LET size == Len(md)
        ws == <<W(size, srcTableIndex, 4), W(size + 4, dstTableIndex, 4),
                W(size + 8, len, 8)>>
    IN  [md |-> ApplyWrites(addBlankSpace(md, 16), ws), ws |-> ws, result |-> "success"]

addTableCopy(md, dstTableIndex, srcTableIndex, len) ==
    LET size == Len(md)
        ws == <<W(size, dstTableIndex, 4), W(size + 4, srcTableIndex, 4),
                W(size + 8, len, 8)>>
    IN  [md |-> ApplyWrites(addBlankSpace(md, 16), ws), ws |-> ws, result |-> "success"]

\* load and store: offset is the memarg's offset
load(md, memOffset, len) == IndexAndLength(md, memOffset, len)

store(md, memOffset, len) == IndexAndLength(md, memOffset, len)

addMemoryInit(md, dataIndex, len) == IndexAndLength(md, dataIndex, len)

addDataDrop(md, dataIndex, len) == IndexAndLength(md, dataIndex, len)

\* addSelect: one raw entry holding the instruction length
addSelect(md, len) ==
    LET r == addRawValue(md, len)
    IN  [md |-> r.md, ws |-> r.ws, result |-> "success"]

----------------------------------------------------------------------------
(* The parser driving the callbacks                                        *)

I32 == <<"I32">>

\* n values of type t
Rep(t, n) == [i \in 1..n |-> t]

\* sizes of the explored groups of locals
LocalCounts == {2}

\* immediates of the explored i32.const instructions
ConstValues == {5}

\* function indices of the explored calls
CallIndices == {1}

\* block types of the explored bodies: (params, results)
BlockSignatures ==
    {FunctionSignature(<<>>, <<>>), FunctionSignature(I32, <<>>),
     FunctionSignature(<<>>, I32)}

\* signatures of the functions whose bodies are explored; the last one
\* returns more values than one entry of Return Data holds
BodySignatures ==
    {FunctionSignature(<<>>, <<>>), FunctionSignature(<<"I32", "F64">>, I32),
     FunctionSignature(<<>>, Rep("I32", 7))}

\* signatures of the explored callees; the last one has more integer
\* parameters than any platform has integer argument registers
CallSignatures ==
    {FunctionSignature(<<>>, I32), FunctionSignature(Rep("I32", 9), <<>>)}

TableIndices == {0, 1}

TypeIndices == {0, 3}

\* callees of the call sites explored by SpecCalls: every parameter list of
\* up to MaxShortArgs types, and lists that exhaust the registers
CalleeParameters ==
    SeqsUpTo(ArgTypes, MaxShortArgs)
    \cup {Rep("I32", 9), Rep("F64", 9),
          Rep("I64", 7) \o <<"Funcref">> \o Rep("F32", 9),
          <<"I32", "F64", "I64", "F32", "I32", "F64", "I64", "F32", "I32",
            "F64", "I64", "F32", "I32", "F64", "I64", "F32", "I32", "F64">>}

CalleeResults == {<<>>, <<"F64">>, Rep("I32", 7)}

CalleeSignatures ==
    {FunctionSignature(a, r) : a \in CalleeParameters, r \in CalleeResults}

\* signatures explored for the argument layout
Signatures ==
    {FunctionSignature(a, <<>>) :
        a \in SeqsUpTo(ArgTypes, MaxShortArgs) \cup SeqsUpTo(LongArgTypes, MaxArgs)}

\* signatures explored for the slots of locals: integer and float
\* parameters that overflow to the stack
LocalSignatures ==
    {FunctionSignature(<<"I32", "F64">> \o Rep("I64", 8), <<>>),
     FunctionSignature(Rep("F32", 9), <<>>),
     FunctionSignature(Rep("I64", 9) \o Rep("F64", 9), <<>>)}

Top == controlStack[Len(controlStack)]

\* the parse goes on while every callback has returned success
At(p) == pc = p /\ result = "success"

Reachable == At("body") /\ m_unreachableBlocks = 0

\* record of scopeLog for a scope opened at (openPC, openMC); placeholder is
\* the offset of the 8 bytes an if reserves for its else target
NewScope(kind, sig, openPC, openMC, placeholder) ==
    [kind |-> kind, sig |-> sig, openPC |-> openPC, openMC |-> openMC,
     placeholder |-> placeholder,
     elseSeen |-> FALSE, elseAtEnd |-> FALSE, elsePC |-> -1,
     elseMCBefore |-> -1, elseMCAfter |-> -1,
     closed |-> FALSE, endPC |-> -1, endMC |-> -1, endMCAfter |-> -1,
     kindAtEnd |-> "", pendingAtEnd |-> -1, awaitingAtEnd |-> <<>>]

\* record of branchLog for the 16-byte entry at off
NewBranch(off, target, depth, op) ==
    [off |-> off, target |-> target, depth |-> depth, op |-> op]

\* record of entryLog for the entry at off: index is the local or function
\* index, nextPC the PC after the instruction
NewEntry(off, op, index, sig, nextPC) ==
    [off |-> off, op |-> op, index |-> index, sig |-> sig, nextPC |-> nextPC]

\* records of patchLog for the writes ws of op made over a buffer of size bytes
NewPatches(ws, op, size) ==
    [i \in DOMAIN ws |-> [dst |-> ws[i].dst, w |-> ws[i].w, op |-> op, size |-> size]]

LocalOps == {i \in DOMAIN entryLog : entryLog[i].op \in {"local.get", "local.set"}}

InitWith(cpus, sigs) ==
    /\ CPU \in cpus
    /\ signature \in sigs
    /\ m_metadata = <<>>
    /\ m_numLocals = 0
    /\ m_numArguments = 0
    /\ m_numArgumentsOnStack = 0
    /\ m_argumentLocations = <<>>
    /\ m_nonArgLocalOffset = 0
    /\ m_bytecodeOffset = 0
    /\ m_bytecodeLength = 0
    /\ offset = 0
    /\ controlStack = <<>>
    /\ expressionStack = 0
    /\ m_unreachableBlocks = 0
    /\ pc = "args"
    /\ written = {}
    /\ branchLog = <<>>
    /\ scopeLog = <<>>
    /\ entryLog = <<>>
    /\ patchLog = <<>>
    /\ lastOp = ""
    /\ result = "success"
    /\ instrs = 0

\* the explored bodies are compiled for one platform
Init == InitWith({"X86_64"}, BodySignatures)

InitArgs == InitWith(Platforms, Signatures)

InitLocals == InitWith({"X86_64"}, LocalSignatures)

\* one group of locals: the count of groups is the byte before the first
addLocal ==
    /\ At("locals")
    /\ offset < 1 + 2 * MaxLocalGroups
    /\ \E count \in LocalCounts : m_numLocals' = m_numLocals + count
    /\ offset' = IF offset = 0 THEN 3 ELSE offset + 2
    /\ lastOp' = "addLocal"
    /\ result' = "success"
    /\ UNCHANGED <<CPU, signature, m_metadata, m_numArguments, m_numArgumentsOnStack,
                   m_argumentLocations, m_nonArgLocalOffset, m_bytecodeOffset,
                   m_bytecodeLength, controlStack, expressionStack,
                   m_unreachableBlocks, pc, ghostVars, instrs>>

\* didFinishParsingLocals, then the body starts with addTopLevel
didFinishParsingLocals ==
    /\ At("locals")
    /\ offset' = IF offset = 0 THEN 1 ELSE offset
    /\ m_bytecodeOffset' = offset'
    /\ controlStack' = <<[controlData |-> addTopLevel(signature),
                          enclosedExpressionStack |-> 0, id |-> 1]>>
    /\ scopeLog' = <<NewScope("TopLevel", signature, 0, 0, -1)>>
    /\ pc' = "body"
    /\ lastOp' = "didFinishParsingLocals"
    /\ UNCHANGED <<CPU, signature, m_metadata, argVars, m_bytecodeLength,
                   expressionStack, m_unreachableBlocks, written, branchLog,
                   entryLog, patchLog, result, instrs>>

fixedVars == <<CPU, signature, argVars, m_bytecodeOffset>>

\* the scope a callback opened is pushed with the operands below its
\* parameters set aside; cond is 1 when the opcode pops a condition
Open(kind, sig, r, cond, placeholder) ==
    /\ Reachable
    /\ instrs < MaxInstrs
    /\ Len(controlStack) < MaxDepth
    /\ expressionStack >= argumentCount(sig) + cond
    /\ offset' = offset + 2
    /\ m_metadata' = r.md
    /\ written' = written \cup FilledBy(r.ws)
    /\ controlStack' = Append(controlStack,
            [controlData |-> r.block,
             enclosedExpressionStack |-> expressionStack - cond - argumentCount(sig),
             id |-> Len(scopeLog) + 1])
    /\ expressionStack' = argumentCount(sig)
    /\ scopeLog' = Append(scopeLog,
            NewScope(kind, sig, offset + 2 - m_bytecodeOffset, Len(r.md), placeholder))
    /\ instrs' = instrs + 1
    /\ lastOp' = kind
    /\ result' = r.result
    /\ UNCHANGED <<fixedVars, m_bytecodeLength, m_unreachableBlocks, pc, branchLog,
                   entryLog, patchLog>>

Block ==
    \E sig \in BlockSignatures :
        Open("Block", sig, addBlock(m_metadata, sig, offset + 2 - m_bytecodeOffset), 0, -1)

Loop ==
    \E sig \in BlockSignatures :
        Open("Loop", sig, addLoop(m_metadata, sig, offset + 2 - m_bytecodeOffset), 0, -1)

If ==
    \E sig \in BlockSignatures :
        Open("If", sig, addIf(m_metadata, sig, offset + 2 - m_bytecodeOffset), 1,
             Len(m_metadata))

\* else, in reachable code or closing the unreachable then-branch
Else ==
    /\ At("body")
    /\ m_unreachableBlocks <= 1
    /\ isIf(Top.controlData)
    /\ m_unreachableBlocks = 0 => expressionStack = returnCount(Top.controlData.m_signature)
    /\ LET r == addElse(m_metadata, Top.controlData, offset + 1 - m_bytecodeOffset, "Else")
       IN  /\ m_metadata' = r.md
           /\ written' = written \cup FilledBy(r.ws)
           /\ patchLog' = patchLog \o NewPatches(r.patches, "else", Len(m_metadata))
           /\ result' = r.result
           /\ controlStack' = [controlStack EXCEPT ![Len(controlStack)].controlData = r.block]
           /\ scopeLog' = [scopeLog EXCEPT ![Top.id] =
                  [@ EXCEPT !.elseSeen = TRUE,
                            !.elsePC = offset + 1 - m_bytecodeOffset,
                            !.elseMCBefore = Len(m_metadata),
                            !.elseMCAfter = Len(r.md)]]
    /\ offset' = offset + 1
    /\ expressionStack' = argumentCount(Top.controlData.m_signature)
    /\ m_unreachableBlocks' = 0
    /\ lastOp' = "else"
    /\ UNCHANGED <<fixedVars, m_bytecodeLength, pc, branchLog, entryLog, instrs>>

\* end of an if that has no else: the parser first calls the else callback
\* while the current opcode is end, the block's end follows in EndBlock
EndIf ==
    /\ At("body")
    /\ m_unreachableBlocks <= 1
    /\ isIf(Top.controlData)
    /\ argumentCount(Top.controlData.m_signature) = returnCount(Top.controlData.m_signature)
    /\ m_unreachableBlocks = 0 => expressionStack = returnCount(Top.controlData.m_signature)
    /\ LET r == addElse(m_metadata, Top.controlData, offset + 1 - m_bytecodeOffset, "End")
       IN  /\ m_metadata' = r.md
           /\ written' = written \cup FilledBy(r.ws)
           /\ patchLog' = patchLog \o NewPatches(r.patches, "else", Len(m_metadata))
           /\ result' = r.result
           /\ controlStack' = [controlStack EXCEPT ![Len(controlStack)].controlData = r.block]
           /\ scopeLog' = [scopeLog EXCEPT ![Top.id] =
                  [@ EXCEPT !.elseSeen = TRUE, !.elseAtEnd = TRUE,
                            !.elsePC = offset + 1 - m_bytecodeOffset,
                            !.elseMCBefore = Len(m_metadata),
                            !.elseMCAfter = Len(r.md)]]
    /\ offset' = offset + 1
    /\ expressionStack' = argumentCount(Top.controlData.m_signature)
    /\ pc' = "endIf"
    /\ lastOp' = "else at end"
    /\ UNCHANGED <<fixedVars, m_bytecodeLength, m_unreachableBlocks, branchLog,
                   entryLog, instrs>>

\* the end callback for the scope on top of the control stack, off being
\* the parser's offset just after the end opcode
Close(off) ==
    LET block == Top.controlData
        r == endBlock(m_metadata, block, off - m_bytecodeOffset, off, m_bytecodeLength)
    IN  /\ m_metadata' = r.md
        /\ m_bytecodeLength' = r.len
        /\ written' = written \cup FilledBy(r.ws)
        /\ patchLog' = patchLog \o NewPatches(r.patches, "end", Len(m_metadata))
        /\ result' = r.result
        /\ controlStack' = SubSeq(controlStack, 1, Len(controlStack) - 1)
        /\ expressionStack' = Top.enclosedExpressionStack + returnCount(block.m_signature)
        /\ scopeLog' = [scopeLog EXCEPT ![Top.id] =
               [@ EXCEPT !.closed = TRUE,
                         !.endPC = off - m_bytecodeOffset - 1,
                         !.endMC = Len(m_metadata),
                         !.endMCAfter = Len(r.md),
                         !.kindAtEnd = block.m_blockType,
                         !.pendingAtEnd = block.m_pendingOffset,
                         !.awaitingAtEnd = block.m_awaitingUpdate]]
        /\ m_unreachableBlocks' = 0
        /\ pc' = IF Len(controlStack) = 1 THEN "done" ELSE "body"
        /\ offset' = off
        /\ lastOp' = "end"
        /\ UNCHANGED <<fixedVars, branchLog, entryLog, instrs>>

End ==
    /\ At("body")
    /\ m_unreachableBlocks <= 1
    /\ ~isIf(Top.controlData)
    /\ m_unreachableBlocks = 0 => expressionStack = returnCount(Top.controlData.m_signature)
    /\ Close(offset + 1)

EndBlock ==
    /\ At("endIf")
    /\ Close(offset)

\* br d: the target is d scopes below the top of the control stack
Br ==
    /\ Reachable
    /\ instrs < MaxInstrs
    /\ \E k \in 1..Len(controlStack) :
        /\ expressionStack >= branchTargetArity(controlStack[k].controlData)
        /\ LET r == addBranch(m_metadata, controlStack, k, expressionStack,
                              offset + 2 - m_bytecodeOffset)
           IN  /\ m_metadata' = r.md
               /\ written' = written \cup FilledBy(r.ws)
               /\ controlStack' = r.cs
               /\ result' = r.result
               /\ branchLog' = Append(branchLog,
                      NewBranch(Len(m_metadata), controlStack[k].id, expressionStack, "br"))
    /\ offset' = offset + 2
    /\ m_unreachableBlocks' = 1
    /\ instrs' = instrs + 1
    /\ lastOp' = "br"
    /\ UNCHANGED <<fixedVars, m_bytecodeLength, expressionStack, pc, scopeLog,
                   entryLog, patchLog>>

\* br_if d: the condition is popped before the callback
BrIf ==
    /\ Reachable
    /\ instrs < MaxInstrs
    /\ expressionStack >= 1
    /\ \E k \in 1..Len(controlStack) :
        /\ expressionStack - 1 >= branchTargetArity(controlStack[k].controlData)
        /\ LET r == addBranch(m_metadata, controlStack, k, expressionStack - 1,
                              offset + 2 - m_bytecodeOffset)
           IN  /\ m_metadata' = r.md
               /\ written' = written \cup FilledBy(r.ws)
               /\ controlStack' = r.cs
               /\ result' = r.result
               /\ branchLog' = Append(branchLog,
                      NewBranch(Len(m_metadata), controlStack[k].id,
                                expressionStack - 1, "br_if"))
    /\ offset' = offset + 2
    /\ expressionStack' = expressionStack - 1
    /\ instrs' = instrs + 1
    /\ lastOp' = "br_if"
    /\ UNCHANGED <<fixedVars, m_bytecodeLength, m_unreachableBlocks, pc, scopeLog,
                   entryLog, patchLog>>

\* br_table: the index is popped, every target has the arity of the default
BrTable ==
    /\ Reachable
    /\ instrs < MaxInstrs
    /\ expressionStack >= 1
    /\ \E jumps \in SeqsUpTo(1..Len(controlStack), MaxTable), d \in 1..Len(controlStack) :
        /\ expressionStack - 1 >= branchTargetArity(controlStack[d].controlData)
        /\ \A i \in 1..Len(jumps) :
               branchTargetArity(controlStack[jumps[i]].controlData)
                   = branchTargetArity(controlStack[d].controlData)
        /\ LET r == addSwitch(m_metadata, controlStack, jumps, d, expressionStack - 1,
                              offset + 3 + Len(jumps) - m_bytecodeOffset)
               all == Append(jumps, d)
           IN  /\ m_metadata' = r.md
               /\ written' = written \cup FilledBy(r.ws)
               /\ controlStack' = r.cs
               /\ result' = r.result
               /\ branchLog' = branchLog \o
                      [i \in 1..Len(all) |->
                          NewBranch(Len(m_metadata) + 8 + 16 * (i - 1),
                                    controlStack[all[i]].id, expressionStack - 1,
                                    "br_table")]
        /\ offset' = offset + 3 + Len(jumps)
    /\ expressionStack' = expressionStack - 1
    /\ m_unreachableBlocks' = 1
    /\ instrs' = instrs + 1
    /\ lastOp' = "br_table"
    /\ UNCHANGED <<fixedVars, m_bytecodeLength, pc, scopeLog, entryLog, patchLog>>

\* i32.const v: addConstant records the value and the instruction length
I32Const ==
    /\ Reachable
    /\ instrs < MaxInstrs
    /\ expressionStack < MaxStack
    /\ \E v \in ConstValues :
        LET r == addLEB128ConstantInt32AndLength(m_metadata, v, 2)
        IN  /\ m_metadata' = r.md
            /\ written' = written \cup FilledBy(r.ws)
    /\ offset' = offset + 2
    /\ expressionStack' = expressionStack + 1
    /\ instrs' = instrs + 1
    /\ lastOp' = "i32.const"
    /\ UNCHANGED <<fixedVars, m_bytecodeLength, controlStack, m_unreachableBlocks, pc,
                   branchLog, scopeLog, entryLog, patchLog, result>>

\* an opcode of len bytes whose callback r records no operand; it pops
\* popped values and pushes pushed ones
NoOperand(op, r, len, popped, pushed) ==
    /\ Reachable
    /\ instrs < MaxInstrs
    /\ expressionStack >= popped
    /\ pushed > popped => expressionStack < MaxStack
    /\ m_metadata' = r.md
    /\ written' = written \cup FilledBy(r.ws)
    /\ result' = r.result
    /\ offset' = offset + len
    /\ expressionStack' = expressionStack - popped + pushed
    /\ instrs' = instrs + 1
    /\ lastOp' = op
    /\ UNCHANGED <<fixedVars, m_bytecodeLength, controlStack, m_unreachableBlocks, pc,
                   branchLog, scopeLog, entryLog, patchLog>>

\* drop
Drop == NoOperand("drop", addDrop(m_metadata), 1, 1, 0)

\* i32.add
I32Add == NoOperand("i32.add", addI32Add(m_metadata), 1, 2, 1)

\* memory.size: one i32 is pushed.  The step stands for a run of
\* UInt16Range consecutive memory.size opcodes (two bytes each), which
\* takes the operand stack past what a 2-byte field holds.
CurrentMemory ==
    NoOperand("memory.size", addCurrentMemory(m_metadata), 2 * UInt16Range, 0, UInt16Range)

\* local.get index
LocalGet ==
    /\ Reachable
    /\ instrs < MaxInstrs
    /\ Cardinality(LocalOps) < MaxLocalOps
    /\ expressionStack < MaxStack
    /\ \E index \in 0..(m_numLocals - 1) :
        LET r == getLocal(m_metadata, index, 2)
        IN  /\ m_metadata' = r.md
            /\ written' = written \cup FilledBy(r.ws)
            /\ result' = r.result
            /\ entryLog' = Append(entryLog,
                   NewEntry(Len(m_metadata), "local.get", index, signature,
                            offset + 2 - m_bytecodeOffset))
    /\ offset' = offset + 2
    /\ expressionStack' = expressionStack + 1
    /\ instrs' = instrs + 1
    /\ lastOp' = "local.get"
    /\ UNCHANGED <<fixedVars, m_bytecodeLength, controlStack, m_unreachableBlocks, pc,
                   branchLog, scopeLog, patchLog>>

\* local.set index
LocalSet ==
    /\ Reachable
    /\ instrs < MaxInstrs
    /\ Cardinality(LocalOps) < MaxLocalOps
    /\ expressionStack >= 1
    /\ \E index \in 0..(m_numLocals - 1) :
        LET r == setLocal(m_metadata, index, 2)
        IN  /\ m_metadata' = r.md
            /\ written' = written \cup FilledBy(r.ws)
            /\ result' = r.result
            /\ entryLog' = Append(entryLog,
                   NewEntry(Len(m_metadata), "local.set", index, signature,
                            offset + 2 - m_bytecodeOffset))
    /\ offset' = offset + 2
    /\ expressionStack' = expressionStack - 1
    /\ instrs' = instrs + 1
    /\ lastOp' = "local.set"
    /\ UNCHANGED <<fixedVars, m_bytecodeLength, controlStack, m_unreachableBlocks, pc,
                   branchLog, scopeLog, patchLog>>

\* call index: the arguments are popped, the results pushed
CallWith(sigs) ==
    /\ Reachable
    /\ instrs < MaxInstrs
    /\ \E index \in CallIndices, sig \in sigs :
        /\ expressionStack >= argumentCount(sig)
        /\ returnCount(sig) > argumentCount(sig) => expressionStack < MaxStack
        /\ LET r == addCall(m_metadata, index, sig, offset + 2 - m_bytecodeOffset)
           IN  /\ m_metadata' = r.md
               /\ written' = written \cup FilledBy(r.ws)
               /\ result' = r.result
               /\ entryLog' = Append(entryLog,
                      NewEntry(Len(m_metadata), "call", index, sig,
                               offset + 2 - m_bytecodeOffset))
        /\ expressionStack' = expressionStack - argumentCount(sig) + returnCount(sig)
    /\ offset' = offset + 2
    /\ instrs' = instrs + 1
    /\ lastOp' = "call"
    /\ UNCHANGED <<fixedVars, m_bytecodeLength, controlStack, m_unreachableBlocks, pc,
                   branchLog, scopeLog, patchLog>>

Call == CallWith(CallSignatures)

\* call_indirect: opcode, type index, table index; the operand on top of
\* the arguments selects the table element
CallIndirectWith(types) ==
    /\ Reachable
    /\ instrs < MaxInstrs
    /\ \E tableIndex \in TableIndices, type \in types :
        /\ expressionStack >= argumentCount(type.sig) + 1
        /\ LET r == addCallIndirect(m_metadata, tableIndex, type,
                                    offset + 3 - m_bytecodeOffset)
           IN  /\ m_metadata' = r.md
               /\ written' = written \cup FilledBy(r.ws)
               /\ result' = r.result
               /\ entryLog' = Append(entryLog,
                      [NewEntry(Len(m_metadata), "call_indirect", tableIndex, type.sig,
                                offset + 3 - m_bytecodeOffset)
                          EXCEPT !.index = <<tableIndex, type.index>>])
        /\ expressionStack' = expressionStack - argumentCount(type.sig) - 1
                                  + returnCount(type.sig)
    /\ offset' = offset + 3
    /\ instrs' = instrs + 1
    /\ lastOp' = "call_indirect"
    /\ UNCHANGED <<fixedVars, m_bytecodeLength, controlStack, m_unreachableBlocks, pc,
                   branchLog, scopeLog, patchLog>>

\* one call site per explored body, its callee drawn from CalleeSignatures
CallSite == entryLog = <<>> /\ CallWith(CalleeSignatures)

CallIndirectSite ==
    /\ entryLog = <<>>
    /\ CallIndirectWith({TypeDefinition(t, sig) :
                            t \in TypeIndices, sig \in CalleeSignatures})

\* block, loop or if in unreachable code: counted, no callback
UnreachableOpen ==
    /\ At("body")
    /\ m_unreachableBlocks >= 1
    /\ m_unreachableBlocks < MaxUnreachable
    /\ instrs < MaxInstrs
    /\ offset' = offset + 2
    /\ m_unreachableBlocks' = m_unreachableBlocks + 1
    /\ instrs' = instrs + 1
    /\ lastOp' = "unreachable block"
    /\ UNCHANGED <<fixedVars, m_metadata, m_bytecodeLength, controlStack,
                   expressionStack, pc, ghostVars, result>>

\* end of a scope that was opened in unreachable code: no callback
UnreachableEnd ==
    /\ At("body")
    /\ m_unreachableBlocks > 1
    /\ offset' = offset + 1
    /\ m_unreachableBlocks' = m_unreachableBlocks - 1
    /\ lastOp' = "unreachable end"
    /\ UNCHANGED <<fixedVars, m_metadata, m_bytecodeLength, controlStack,
                   expressionStack, pc, ghostVars, result, instrs>>

\* any other opcode in unreachable code: skipped, no callback
UnreachableOther ==
    /\ At("body")
    /\ m_unreachableBlocks >= 1
    /\ instrs < MaxInstrs
    /\ offset' = offset + 1
    /\ instrs' = instrs + 1
    /\ lastOp' = "unreachable opcode"
    /\ UNCHANGED <<fixedVars, m_metadata, m_bytecodeLength, controlStack,
                   expressionStack, m_unreachableBlocks, pc, ghostVars, result>>

Next ==
    \/ addArguments
    \/ addLocal
    \/ didFinishParsingLocals
    \/ Block
    \/ Loop
    \/ If
    \/ Else
    \/ EndIf
    \/ End
    \/ EndBlock
    \/ Br
    \/ BrIf
    \/ BrTable
    \/ I32Const
    \/ Drop
    \/ I32Add
    \/ CurrentMemory
    \/ Call
    \/ UnreachableOpen
    \/ UnreachableEnd
    \/ UnreachableOther

Spec == Init /\ [][Next]_vars

ExceptionSignatures ==
    {FunctionSignature(<<>>, <<>>), FunctionSignature(I32, <<>>)}

Try ==
    \E sig \in BlockSignatures :
        Open("Try", sig, addTry(m_metadata, sig), 0, -1)

\* catch and catch_all end the arm before them and start a handler in the
\* same scope; r is what the callback returned
Handler(op, r) ==
    /\ At("body")
    /\ m_unreachableBlocks <= 1
    /\ instrs < MaxInstrs
    /\ \/ Top.controlData.m_blockType = "Try"
       \/ Top.controlData.m_blockType = "Catch" /\ Top.controlData.m_catchKind = "Catch"
    /\ m_unreachableBlocks = 0 => expressionStack = returnCount(Top.controlData.m_signature)
    /\ r.results <= MaxStack
    /\ m_metadata' = r.md
    /\ result' = r.result
    /\ controlStack' = [controlStack EXCEPT ![Len(controlStack)].controlData = r.block]
    /\ expressionStack' = r.results
    /\ m_unreachableBlocks' = 0
    /\ offset' = offset + 2
    /\ instrs' = instrs + 1
    /\ lastOp' = op
    /\ UNCHANGED <<fixedVars, m_bytecodeLength, pc, ghostVars>>

Catch ==
    \E exceptionSignature \in ExceptionSignatures :
        Handler("catch",
                IF m_unreachableBlocks = 0
                THEN addCatch(m_metadata, exceptionSignature, Top.controlData)
                ELSE addCatchToUnreachable(m_metadata, exceptionSignature, Top.controlData))

CatchAll ==
    Handler("catch_all",
            IF m_unreachableBlocks = 0
            THEN addCatchAll(m_metadata, Top.controlData)
            ELSE addCatchAllToUnreachable(m_metadata, Top.controlData))

InitTry == InitWith({"X86_64"}, {FunctionSignature(<<>>, <<>>)})

NextTry ==
    \/ addArguments
    \/ didFinishParsingLocals
    \/ Try
    \/ Catch
    \/ CatchAll
    \/ Block
    \/ Loop
    \/ If
    \/ Else
    \/ EndIf
    \/ EndBlock
    \/ Br
    \/ BrIf
    \/ I32Const
    \/ End

SpecTry == InitTry /\ [][NextTry]_vars

\* bytes of the unsigned LEB128 encoding of a small index
LEBLength(v) == IF v < 128 THEN 1 ELSE 2

\* global.get: opcode and index; pushes the global's value
GlobalGet ==
    /\ Reachable
    /\ instrs < MaxInstrs
    /\ expressionStack < MaxStack
    /\ \E index \in GlobalIndices :
        LET len == 1 + LEBLength(index)
            r == getGlobal(m_metadata, index, len)
        IN  /\ m_metadata' = r.md
            /\ written' = written \cup FilledBy(r.ws)
            /\ result' = r.result
            /\ entryLog' = Append(entryLog,
                   NewEntry(Len(m_metadata), "global.get", index, signature,
                            offset + len - m_bytecodeOffset))
            /\ offset' = offset + len
    /\ expressionStack' = expressionStack + 1
    /\ instrs' = instrs + 1
    /\ lastOp' = "global.get"
    /\ UNCHANGED <<fixedVars, m_bytecodeLength, controlStack, m_unreachableBlocks, pc,
                   branchLog, scopeLog, patchLog>>

\* global.set: opcode and index; pops the value
GlobalSet ==
    /\ Reachable
    /\ instrs < MaxInstrs
    /\ expressionStack >= 1
    /\ \E index \in GlobalIndices :
        LET len == 1 + LEBLength(index)
            r == setGlobal(m_metadata, index, len)
        IN  /\ m_metadata' = r.md
            /\ written' = written \cup FilledBy(r.ws)
            /\ result' = r.result
            /\ entryLog' = Append(entryLog,
                   NewEntry(Len(m_metadata), "global.set", index, signature,
                            offset + len - m_bytecodeOffset))
            /\ offset' = offset + len
    /\ expressionStack' = expressionStack - 1
    /\ instrs' = instrs + 1
    /\ lastOp' = "global.set"
    /\ UNCHANGED <<fixedVars, m_bytecodeLength, controlStack, m_unreachableBlocks, pc,
                   branchLog, scopeLog, patchLog>>

InitGlobals == InitWith({"X86_64"}, {FunctionSignature(<<>>, <<>>)})

NextGlobals ==
    \/ addArguments
    \/ didFinishParsingLocals
    \/ GlobalGet
    \/ GlobalSet

SpecGlobals == InitGlobals /\ [][NextGlobals]_vars

\* an instruction with immediates: r is what its callback returned, a and
\* b the immediates logged, len the bytes of the instruction
Operand(op, r, a, b, len, popped, pushed) ==
    /\ Reachable
    /\ instrs < MaxInstrs
    /\ Len(entryLog) < MaxOperandOps
    /\ expressionStack >= popped
    /\ pushed > popped => expressionStack < MaxStack
    /\ m_metadata' = r.md
    /\ written' = written \cup FilledBy(r.ws)
    /\ result' = r.result
    /\ entryLog' = Append(entryLog,
           [NewEntry(Len(m_metadata), op, <<a, b>>, signature,
                     offset + len - m_bytecodeOffset) EXCEPT !.sig = len])
    /\ offset' = offset + len
    /\ expressionStack' = expressionStack - popped + pushed
    /\ instrs' = instrs + 1
    /\ lastOp' = op
    /\ UNCHANGED <<fixedVars, m_bytecodeLength, controlStack, m_unreachableBlocks, pc,
                   branchLog, scopeLog, patchLog>>

\* immediates of the explored instructions
OperandValues == {1, 300}

TableGet ==
    \E index \in OperandValues :
        LET len == 1 + LEBLength(index)
        IN  Operand("table.get", addTableGet(m_metadata, index, len), index, 0, len, 1, 1)

TableSet ==
    \E index \in OperandValues :
        LET len == 1 + LEBLength(index)
        IN  Operand("table.set", addTableSet(m_metadata, index, len), index, 0, len, 2, 0)

TableSize ==
    \E index \in OperandValues :
        LET len == 2 + LEBLength(index)
        IN  Operand("table.size", addTableSize(m_metadata, index, len), index, 0, len, 0, 1)

TableGrow ==
    \E index \in OperandValues :
        LET len == 2 + LEBLength(index)
        IN  Operand("table.grow", addTableGrow(m_metadata, index, len), index, 0, len, 2, 1)

TableFill ==
    \E index \in OperandValues :
        LET len == 2 + LEBLength(index)
        IN  Operand("table.fill", addTableFill(m_metadata, index, len), index, 0, len, 3, 0)

ElemDrop ==
    \E index \in OperandValues :
        LET len == 2 + LEBLength(index)
        IN  Operand("elem.drop", addElemDrop(m_metadata, index, len), index, 0, len, 0, 0)

TableInit ==
    \E elementIndex \in OperandValues, tableIndex \in OperandValues :
        LET len == 2 + LEBLength(elementIndex) + LEBLength(tableIndex)
        IN  Operand("table.init",
                    addTableInit(m_metadata, elementIndex, tableIndex, len),
                    elementIndex, tableIndex, len, 3, 0)

TableCopy ==
    \E dstTableIndex \in OperandValues, srcTableIndex \in OperandValues :
        LET len == 2 + LEBLength(dstTableIndex) + LEBLength(srcTableIndex)
        IN  Operand("table.copy",
                    addTableCopy(m_metadata, dstTableIndex, srcTableIndex, len),
                    dstTableIndex, srcTableIndex, len, 3, 0)

\* a load: opcode, alignment, offset
Load ==
    \E memOffset \in OperandValues :
        LET len == 2 + LEBLength(memOffset)
        IN  Operand("load", load(m_metadata, memOffset, len), memOffset, 0, len, 1, 1)

Store ==
    \E memOffset \in OperandValues :
        LET len == 2 + LEBLength(memOffset)
        IN  Operand("store", store(m_metadata, memOffset, len), memOffset, 0, len, 2, 0)

\* memory.init: prefix, opcode, data index, memory index
MemoryInit ==
    \E index \in OperandValues :
        LET len == 3 + LEBLength(index)
        IN  Operand("memory.init", addMemoryInit(m_metadata, index, len), index, 0, len, 3, 0)

DataDrop ==
    \E index \in OperandValues :
        LET len == 2 + LEBLength(index)
        IN  Operand("data.drop", addDataDrop(m_metadata, index, len), index, 0, len, 0, 0)

RefFunc ==
    \E index \in OperandValues :
        LET len == 1 + LEBLength(index)
        IN  Operand("ref.func", addRefFunc(m_metadata, index, len), index, 0, len, 0, 1)

Select == Operand("select", addSelect(m_metadata, 1), 1, 0, 1, 3, 1)

Const32 ==
    \E value \in OperandValues :
        LET len == 1 + LEBLength(value)
        IN  Operand("i32.const", addConstant(m_metadata, "I32", value, len),
                    value, 0, len, 0, 1)

Const64 ==
    \E value \in OperandValues :
        LET len == 1 + LEBLength(value)
        IN  Operand("i64.const", addConstant(m_metadata, "I64", value, len),
                    value, 0, len, 0, 1)

InitEncoders == InitWith({"X86_64"}, {FunctionSignature(<<"I32", "F64">>, <<>>)})

NextEncoders ==
    \/ addArguments
    \/ didFinishParsingLocals
    \/ CurrentMemory
    \/ Block
    \/ Loop
    \/ LocalGet
    \/ LocalSet
    \/ TableGet
    \/ TableSet
    \/ TableSize
    \/ TableGrow
    \/ TableFill
    \/ ElemDrop
    \/ TableInit
    \/ TableCopy
    \/ Load
    \/ Store
    \/ MemoryInit
    \/ DataDrop
    \/ RefFunc
    \/ Select
    \/ Const32
    \/ Const64

SpecEncoders == InitEncoders /\ [][NextEncoders]_vars

InitCalls == InitWith(Platforms, {FunctionSignature(<<>>, <<>>)})

NextCalls ==
    \/ addArguments
    \/ didFinishParsingLocals
    \/ CurrentMemory
    \/ CallSite
    \/ CallIndirectSite

SpecCalls == InitCalls /\ [][NextCalls]_vars

NextArgs == addArguments

SpecArgs == InitArgs /\ [][NextArgs]_vars

\* bodies of local.get and local.set only, over signatures whose
\* parameters overflow to the stack
NextLocals ==
    \/ addArguments
    \/ addLocal
    \/ didFinishParsingLocals
    \/ LocalGet
    \/ LocalSet
    \/ End

SpecLocals == InitLocals /\ [][NextLocals]_vars

----------------------------------------------------------------------------
(* Properties of the control-flow resolver                                 *)

\* the fields of the 16-byte branch entry at off
EntryPC(off) == ReadField(m_metadata, off, 4)
EntryMC(off) == ReadField(m_metadata, off + 4, 4)
EntryPop(off) == ReadField(m_metadata, off + 8, 2)
EntryArity(off) == ReadField(m_metadata, off + 10, 2)

\* the (PC, MC) pair at off has been written
PairWritten(off) == Filled(off, 8) \subseteq written

Branches == {branchLog[i] : i \in DOMAIN branchLog}
Scopes == {scopeLog[i] : i \in DOMAIN scopeLog}
BranchesTo(id) == {b \in Branches : b.target = id}

\* arity of a branch to a scope, from the scope's kind and signature
ScopeArity(s) == IF s.kind = "Loop" THEN Len(s.sig.args) ELSE Len(s.sig.rets)

\* C1: every branch entry registered against a scope has its (PC, MC) pair
\* written once that scope's end has been processed, and after the
\* top-level end no branch entry is left with an unwritten pair.
C1_BranchesPatchedAtEnd ==
    /\ \A b \in Branches : scopeLog[b.target].closed => PairWritten(b.off)
    /\ pc = "done" => \A b \in Branches : PairWritten(b.off)

\* C2: after a loop's end every br, br_if and br_table entry targeting the
\* loop holds the PC and the metadata size seen just after the loop header
\* was processed, and not the coordinates of the end.
C2_LoopBranchTarget ==
    \A b \in Branches :
        LET s == scopeLog[b.target]
        IN  s.kind = "Loop" /\ s.closed =>
                /\ EntryPC(b.off) = s.openPC
                /\ EntryMC(b.off) = s.openMC
                /\ <<EntryPC(b.off), EntryMC(b.off)>> # <<s.endPC, s.endMC>>

\* a closed loop that was targeted by a br_if and by a br after a body
\* instruction had added metadata
C2_Witness ==
    \E s \in Scopes :
        /\ s.kind = "Loop" /\ s.closed
        /\ \E b1, b2 \in Branches :
            /\ scopeLog[b1.target] = s /\ scopeLog[b2.target] = s
            /\ b1.op = "br_if" /\ b2.op = "br"
            /\ b1.off > s.openMC

\* C3: in every branch entry the 2-byte valuesToPop plus the 2-byte arity
\* equals the operand stack depth passed at the branch site, the arity
\* being the branch-target arity of the target scope.
C3_PopPlusArity ==
    \A b \in Branches :
        /\ EntryPop(b.off) + EntryArity(b.off) = b.depth
        /\ EntryArity(b.off) = ScopeArity(scopeLog[b.target])

\* C4: when end closes a scope of kind Block, every entry of that scope's
\* awaitingBranches holds the PC of the end opcode and the metadata size
\* at the time of the end.
C4_BlockEndResolvesAll ==
    \A s \in Scopes :
        s.closed /\ s.kindAtEnd = "Block" =>
            \A i \in DOMAIN s.awaitingAtEnd :
                /\ EntryPC(s.awaitingAtEnd[i]) = s.endPC
                /\ EntryMC(s.awaitingAtEnd[i]) = s.endMC

\* C5: for an if without else the else callback allocates nothing, the one
\* placeholder of the if is written, the scope is a Block without pending
\* placeholder when its end runs, and after the end no branch registered
\* against the scope is left unwritten.
C5_IfWithoutElse ==
    \A i \in DOMAIN scopeLog :
        LET s == scopeLog[i]
        IN  s.elseAtEnd =>
                /\ s.elseMCAfter = s.elseMCBefore
                /\ PairWritten(s.placeholder)
                /\ pc = "endIf" /\ Top.id = i =>
                        isBlock(Top.controlData) /\ Top.controlData.m_pendingOffset = -1
                /\ s.closed =>
                        /\ s.kindAtEnd = "Block" /\ s.pendingAtEnd = -1
                        /\ \A b \in BranchesTo(i) : PairWritten(b.off)

----------------------------------------------------------------------------
(* Properties of the argument layout                                       *)

Args == 1..Len(signature.args)

IntArgs == {i \in Args : signature.args[i] \in {"I32", "I64"}}
FloatArgs == {i \in Args : signature.args[i] \in {"F32", "F64"}}

\* parameters by the kind of slot addArguments gave them: slots 0..7 are
\* integer registers, 8..15 float registers, 16 and up the caller's stack
InIntSlot == {i \in Args : m_argumentLocations[i] \in 0..7}
InFloatSlot == {i \in Args : m_argumentLocations[i] \in 8..15}
InStackSlot == {i \in Args : m_argumentLocations[i] >= 16}

ArgumentsAdded == pc = "locals"

\* C8: for a signature of K integer and M float parameters, min(K, integer
\* register count) parameters are in integer register slots, min(M, 8) in
\* float register slots, the others in stack slots, numArgumentsOnStack
\* counts the stack slots, and these increase in declaration order.
C8_RegisterCounts ==
    ArgumentsAdded /\ IntArgs \cup FloatArgs = Args =>
        /\ Cardinality(InIntSlot) = Min(Cardinality(IntArgs), maxGPRs(CPU))
        /\ Cardinality(InFloatSlot) = Min(Cardinality(FloatArgs), maxFPRs)
        /\ InIntSlot \subseteq IntArgs /\ InFloatSlot \subseteq FloatArgs
        /\ InIntSlot \cup InFloatSlot \cup InStackSlot = Args
        /\ m_numArgumentsOnStack = Cardinality(InStackSlot)
        /\ \A i, j \in InStackSlot :
               i < j => m_argumentLocations[i] < m_argumentLocations[j]

\* the slot the rule of C9 gives parameter i: register slots are free
\* while fewer than 8 parameters of the kind precede, stack slots count
\* from 16 over the parameters that got no register
RuleInReg(i) ==
    \/ i \in IntArgs /\ Cardinality({j \in IntArgs : j < i}) < 8
    \/ i \in FloatArgs /\ Cardinality({j \in FloatArgs : j < i}) < 8

RuleSlot(i) ==
    IF i \in IntArgs /\ RuleInReg(i) THEN Cardinality({j \in IntArgs : j < i})
    ELSE IF i \in FloatArgs /\ RuleInReg(i)
         THEN 8 + Cardinality({j \in FloatArgs : j < i})
    ELSE 16 + Cardinality({j \in Args : j < i /\ ~RuleInReg(j)})

\* C9: each parameter, in declaration order, takes the next free integer
\* register slot if it is integer-typed, the next free float register slot
\* if it is float-typed, and otherwise (no register left, or neither
\* integer- nor float-typed) the next stack slot, counted from 16.
C9_AssignmentRule ==
    ArgumentsAdded => \A i \in Args : m_argumentLocations[i] = RuleSlot(i)

\* C10: the number of integer parameters in integer register slots is at
\* most the platform's integer register count, the count Call Common Data
\* uses (6 on x86-64, 8 on ARM64, 0 elsewhere); the float count is 8.
C10_PlatformRegisterCount ==
    ArgumentsAdded =>
        /\ Cardinality(InIntSlot \cap IntArgs) <= maxGPRs(CPU)
        /\ Cardinality(InFloatSlot) <= 8

----------------------------------------------------------------------------
(* Properties of the operand entries                                       *)

Entries == {entryLog[i] : i \in DOMAIN entryLog}
LocalEntries == {e \in Entries : e.op \in {"local.get", "local.set"}}
CallEntries == {e \in Entries : e.op = "call"}

\* the 4-byte slot index and the 4-byte instruction length of the entry at off
EntrySlot(off) == ReadField(m_metadata, off, 4)
EntryLength(off) == ReadField(m_metadata, off + 4, 4)

\* 16 bytes of frame header, plus the stack-passed arguments, minus the
\* argument count
nonArgumentBaseOffset == 16 + m_numArgumentsOnStack - m_numArguments

\* C11: the entry of a local.get or local.set holds, for a local index
\* below numArguments, the argument location of that index, and for any
\* other index the index plus nonArgumentBaseOffset; the first
\* non-argument local then has the slot just after the last stack-passed
\* argument, the stack-passed arguments filling the slots from 16.
C11_LocalSlot ==
    /\ \A e \in LocalEntries :
           EntrySlot(e.off) = IF e.index < m_numArguments
                              THEN m_argumentLocations[e.index + 1]
                              ELSE e.index + nonArgumentBaseOffset
    /\ pc \notin {"args", "locals"} =>
           /\ m_nonArgLocalOffset = nonArgumentBaseOffset
           /\ m_numArguments + nonArgumentBaseOffset = 16 + m_numArgumentsOnStack
           /\ {m_argumentLocations[i] : i \in InStackSlot}
                  = {16 + k : k \in 0..(m_numArgumentsOnStack - 1)}

\* a local.get of a stack-passed argument and a local.set of a
\* non-argument local in a function with stack-passed arguments
C11_Witness ==
    /\ m_numArgumentsOnStack > 0
    /\ \E e1, e2 \in LocalEntries :
           /\ e1.op = "local.get" /\ e1.index < m_numArguments
           /\ m_argumentLocations[e1.index + 1] >= 16
           /\ e2.op = "local.set" /\ e2.index >= m_numArguments
           /\ e2.index # EntrySlot(e2.off)

\* the opcodes of the explored bodies whose callback takes no operand
NoOperandOps == {"drop", "memory.size", "i32.add"}

\* the patch sites the open scopes hold: awaiting lists and pending offsets
PatchSites ==
    [k \in DOMAIN controlStack |->
        <<controlStack[k].controlData.m_awaitingUpdate,
          controlStack[k].controlData.m_pendingOffset>>]

\* C12: the callback of an instruction without operand (drop, memory.size,
\* integer arithmetic) leaves the metadata stream, every scope's awaiting
\* list and every pending placeholder as they were.
C12_NoOperandNoMetadata ==
    [][lastOp' \in NoOperandOps =>
          /\ m_metadata' = m_metadata
          /\ PatchSites' = PatchSites
          /\ result' = "success"]_vars

\* an operand-free opcode parsed while a scope awaits a branch and an if
\* holds a pending placeholder
C12_Witness ==
    /\ lastOp \in NoOperandOps
    /\ Len(m_metadata) > 0
    /\ \E k \in DOMAIN controlStack :
           controlStack[k].controlData.m_awaitingUpdate # <<>>
    /\ \E k \in DOMAIN controlStack :
           controlStack[k].controlData.m_pendingOffset # -1

----------------------------------------------------------------------------
(* Properties of the end of the function and of the buffer                 *)

\* size of the Return Data of a function with r return values
ReturnDataSize(r) == 8 * ((r + 2 + 7) \div 8)

\* C13: at the end of the TopLevel scope every branch entry awaiting the
\* top level holds the PC of the final end opcode and the metadata size
\* before the Return Data, the bytecode length is recorded, and a Return
\* Data of 8 * ceil((R + 2) / 8) bytes is appended for R return values;
\* the end of a scope of another kind appends nothing.
C13_TopLevelEnd ==
    /\ pc = "done" =>
           LET s == scopeLog[1]
           IN  /\ s.closed /\ s.kindAtEnd = "TopLevel"
               /\ \A b \in BranchesTo(1) :
                      /\ b.off \in {s.awaitingAtEnd[i] : i \in DOMAIN s.awaitingAtEnd}
                      /\ EntryPC(b.off) = s.endPC
                      /\ EntryMC(b.off) = s.endMC
               /\ s.endPC = offset - 1 - m_bytecodeOffset
               /\ m_bytecodeLength = offset
               /\ s.endMCAfter = s.endMC + ReturnDataSize(returnCount(signature))
               /\ Len(m_metadata) = s.endMCAfter
               /\ ReadField(m_metadata, s.endMC, 2) = ReturnDataSize(returnCount(signature))
    /\ \A i \in DOMAIN scopeLog :
           scopeLog[i].closed /\ i # 1 =>
               /\ scopeLog[i].endMCAfter = scopeLog[i].endMC
               /\ m_bytecodeLength = 0 \/ pc = "done"

\* a finished function of seven return values whose top level was the
\* target of a branch and which closed an inner scope
C13_Witness ==
    /\ pc = "done"
    /\ returnCount(signature) = 7
    /\ BranchesTo(1) # {}
    /\ \E i \in DOMAIN scopeLog : i # 1 /\ scopeLog[i].closed

\* the bytes of the patch sites the open scopes hold
PendingBytes ==
    UNION {UNION {Filled(controlStack[k].controlData.m_awaitingUpdate[i], 8) :
                     i \in DOMAIN controlStack[k].controlData.m_awaitingUpdate}
             \cup (IF controlStack[k].controlData.m_pendingOffset # -1
                   THEN Filled(controlStack[k].controlData.m_pendingOffset, 8)
                   ELSE {}) :
           k \in DOMAIN controlStack}

\* C14: no callback makes the metadata stream shorter or moves a byte
\* that was allocated: every byte outside the open scopes' patch sites
\* keeps its value at its offset and every logged entry keeps its offset;
\* the else callback of an if without else and the end of a scope other
\* than the top level leave the length as it was.
C14_AppendOnly ==
    [][/\ Len(m_metadata') >= Len(m_metadata)
       /\ \A i \in 1..Len(m_metadata) :
              (i - 1) \notin PendingBytes => m_metadata'[i] = m_metadata[i]
       /\ SubSeq(branchLog', 1, Len(branchLog)) = branchLog
       /\ SubSeq(entryLog', 1, Len(entryLog)) = entryLog
       /\ \A i \in DOMAIN scopeLog :
              /\ scopeLog'[i].placeholder = scopeLog[i].placeholder
              /\ scopeLog'[i].openMC = scopeLog[i].openMC
       /\ lastOp' = "else at end" \/ (lastOp' = "end" /\ pc' # "done") =>
              Len(m_metadata') = Len(m_metadata)]_vars

\* an if without else was closed and the end of another scope resolved a
\* branch entry, with operand entries in the buffer
C14_Witness ==
    /\ \E s \in Scopes : s.elseAtEnd /\ s.closed
    /\ \E s \in Scopes :
           s.closed /\ s.kindAtEnd \in {"Block", "Loop"} /\ s.awaitingAtEnd # <<>>
    /\ lastOp = "end" /\ pc = "body"

Patches == {patchLog[i] : i \in DOMAIN patchLog}

\* C15: every write an else or an end makes over the buffer lies inside
\* the bytes allocated before the callback: its offset is not negative
\* (the sentinel -1 is never a target) and offset plus width is at most
\* the length the buffer has when the callback starts.
C15_PatchInBounds ==
    \A p \in Patches :
        /\ p.dst >= 0
        /\ p.dst + p.w <= p.size
        /\ p.dst # -1

\* an else, the end of an if without else, the end of an if with else and
\* an end resolving a branch have all written
C15_Witness ==
    /\ \E s \in Scopes : s.elseSeen /\ ~s.elseAtEnd /\ s.closed
    /\ \E s \in Scopes : s.closed /\ s.awaitingAtEnd # <<>>
    /\ \E p \in Patches : p.op = "else"
    /\ \E p \in Patches : p.op = "end"

EntrySize == 8

Aligned(off) == off % EntrySize = 0

\* C16: after every callback the length of the metadata stream is a
\* multiple of 8, and every branch entry, every placeholder of an if or
\* an else and every call-site block (the call header, its Call Common
\* Data) starts at a multiple of 8.
C16_Aligned ==
    /\ Aligned(Len(m_metadata))
    /\ \A b \in Branches : Aligned(b.off)
    /\ \A s \in Scopes :
           /\ s.kind = "If" => Aligned(s.placeholder)
           /\ s.elseSeen => Aligned(s.elseMCBefore) /\ Aligned(s.elseMCAfter)
           /\ Aligned(s.openMC)
    /\ \A k \in DOMAIN controlStack :
           /\ controlStack[k].controlData.m_pendingOffset # -1 =>
                  Aligned(controlStack[k].controlData.m_pendingOffset)
           /\ \A i \in DOMAIN controlStack[k].controlData.m_awaitingUpdate :
                  Aligned(controlStack[k].controlData.m_awaitingUpdate[i])
    /\ \A e \in Entries : Aligned(e.off)
    /\ \A e \in CallEntries :
           /\ Aligned(e.off + 8)
           /\ Aligned(e.off + 8 + 32 + ReadField(m_metadata, e.off + 8 + 32, 2))

\* a call whose Call Common Data lists three stack-only arguments, a
\* br_table and an else placeholder in one buffer
C16_Witness ==
    /\ \E e \in CallEntries : ReadField(m_metadata, e.off + 8 + 32 + 4, 2) = 3
    /\ \E b \in Branches : b.op = "br_table"
    /\ \E s \in Scopes : s.elseSeen /\ ~s.elseAtEnd

\* C17: no callback returns an error: every callback the parser has
\* invoked returned success, so generation is never stopped by the
\* generator.
C17_NoCallbackFails == result = "success"

\* a complete function whose generation ran a call, a branch carrying a
\* value and an else
C17_Witness ==
    /\ pc = "done"
    /\ result = "success"
    /\ CallEntries # {}
    /\ \E b \in Branches : ReadField(m_metadata, b.off + 10, 2) > 0
    /\ \E s \in Scopes : s.elseSeen

\* C19: the arity recorded in a branch entry is the parameter count of the
\* target scope when the target is a loop, and the result count of the
\* target scope for every other kind of scope.
C19_BranchArity ==
    \A b \in Branches :
        LET target == scopeLog[b.target]
        IN  /\ target.kind = "Loop" =>
                   EntryArity(b.off) = argumentCount(target.sig)
            /\ target.kind # "Loop" =>
                   EntryArity(b.off) = returnCount(target.sig)

\* a branch to a loop and a branch to the function's scope, each with a
\* target whose parameter count differs from its result count
C19_Witness ==
    \A kind \in {"Loop", "TopLevel"} :
        \E b \in Branches :
            /\ scopeLog[b.target].kind = kind
            /\ argumentCount(scopeLog[b.target].sig) # returnCount(scopeLog[b.target].sig)

BranchOps == {"br", "br_if"}

AwaitingOf(cs) == [k \in DOMAIN cs |-> cs[k].controlData.m_awaitingUpdate]

PendingOf(cs) == [k \in DOMAIN cs |-> cs[k].controlData.m_pendingOffset]

\* C20: br and br_if each append exactly one 16-byte entry, add the
\* entry's start offset to the awaiting list of the target scope and to
\* that of no other scope, and store in bytes 12..15 of the entry the PC
\* of the instruction after the branch.
C20_BranchEntry ==
    [][lastOp' \in BranchOps =>
          LET size == Len(m_metadata)
              target == branchLog'[Len(branchLog')].target
          IN  /\ Len(branchLog') = Len(branchLog) + 1
              /\ branchLog'[Len(branchLog')].off = size
              /\ Len(m_metadata') = size + 16
              /\ SubSeq(m_metadata', 1, size) = m_metadata
              /\ DOMAIN controlStack' = DOMAIN controlStack
              /\ \E k \in DOMAIN controlStack :
                     /\ controlStack[k].id = target
                     /\ AwaitingOf(controlStack')[k] =
                            Append(AwaitingOf(controlStack)[k], size)
                     /\ \A j \in DOMAIN controlStack \ {k} :
                            AwaitingOf(controlStack')[j] = AwaitingOf(controlStack)[j]
              /\ PendingOf(controlStack') = PendingOf(controlStack)
              /\ ReadField(m_metadata', size + 12, 4) = offset' - m_bytecodeOffset]_vars

\* a br and a br_if to different scopes, the br_if to a scope that is not
\* the one opened last
C20_Witness ==
    \E b1, b2 \in Branches :
        /\ b1.op = "br"
        /\ b2.op = "br_if"
        /\ b1.target # b2.target
        /\ b2.target < Len(scopeLog)
        /\ b1.off # b2.off

\* offsets of the entries of bs that target the scope id, in order
RECURSIVE OffsetsTo(_, _)
OffsetsTo(bs, id) ==
    IF bs = <<>> THEN <<>>
    ELSE (IF Head(bs).target = id THEN <<Head(bs).off>> ELSE <<>>)
         \o OffsetsTo(Tail(bs), id)

CallSiteEntries == {e \in Entries : e.op \in {"call", "call_indirect"}}

\* size of the header a call site starts with
HeaderSize(e) == IF e.op = "call" THEN 8 ELSE 16

\* start of the fixed region and of the tail of the call site e
FixedRegion(e) == e.off + HeaderSize(e)
TailStart(e) == FixedRegion(e) + 32

IsInteger(t) == t \in {"I32", "I64"}
IsFloat(t) == t \in {"F32", "F64"}

\* how many of the first n parameters of sig are of a type in the class
CountBefore(sig, n, Class(_)) == Cardinality({k \in 1..n : Class(sig.args[k])})

\* parameter i (1-based) of sig travels in a register of the platform
InRegister(sig, i) ==
    \/ IsInteger(sig.args[i]) /\ CountBefore(sig, i - 1, IsInteger) < maxGPRs(CPU)
    \/ IsFloat(sig.args[i]) /\ CountBefore(sig, i - 1, IsFloat) < maxFPRs

\* the stack-only parameters of sig, in declaration order
StackOnly(sig) ==
    SelectSeq([i \in 1..argumentCount(sig) |-> i], LAMBDA i : ~InRegister(sig, i))

\* caller-stack offset of parameter i (1-based): A - 1 - (i - 1)
CallerStackOffset(sig, i) == argumentCount(sig) - i

CommonDataSize(sig) ==
    32 + roundUpToMultipleOf(8, 6 + 2 * Len(StackOnly(sig)))
       + roundUpToMultipleOf(8, returnCount(sig) + 2)

GlobalEntries == {e \in Entries : e.op \in {"global.get", "global.set"}}

LoopBranches == {b \in Branches : scopeLog[b.target].kind = "Loop"}

\* the bytes of the (PC, MC) pair of the entry at off
TargetBytes(off) == {off + k : k \in 0..7}

\* C26 as stated: a branch that targets a loop needs no deferred patching:
\* from the moment its entry is emitted, in every later state, the entry's
\* (PC, MC) pair is the loop's entry PC and MC fixed when the loop opened.
C26_LoopTargetAtOnce ==
    \A b \in LoopBranches :
        /\ EntryPC(b.off) = scopeLog[b.target].openPC
        /\ EntryMC(b.off) = scopeLog[b.target].openMC

\* C26 as the code has it: while the loop is open the entry's (PC, MC) pair
\* is unwritten and the entry waits in the loop's awaiting list; from the
\* loop's end on the pair is the loop's entry PC and MC.
C26_LoopTargetAtEnd ==
    \A b \in LoopBranches :
        LET s == scopeLog[b.target]
        IN  /\ ~s.closed =>
                   /\ TargetBytes(b.off) \cap written = {}
                   /\ EntryPC(b.off) = 0 /\ EntryMC(b.off) = 0
                   /\ \E k \in DOMAIN controlStack :
                          /\ controlStack[k].id = b.target
                          /\ controlStack[k].controlData.m_pc = s.openPC
                          /\ controlStack[k].controlData.m_mc = s.openMC
                          /\ \E i \in DOMAIN AwaitingOf(controlStack)[k] :
                                 AwaitingOf(controlStack)[k][i] = b.off
            /\ s.closed =>
                   /\ TargetBytes(b.off) \subseteq written
                   /\ EntryPC(b.off) = s.openPC
                   /\ EntryMC(b.off) = s.openMC

\* a branch to a loop that is still open, next to a branch to a loop that
\* has been closed
C26_Witness ==
    /\ \E b \in LoopBranches : ~scopeLog[b.target].closed
    /\ \E b \in LoopBranches : scopeLog[b.target].closed

\* C27: when the end of a scope of any kind is processed, a scope opened
\* by try and one turned into Catch or CatchAll included, every entry in
\* the scope's awaiting list is patched at that moment.
C27_EndPatchesAwaiting ==
    [][lastOp' = "end" /\ Len(controlStack') < Len(controlStack) =>
          \A i \in DOMAIN Top.controlData.m_awaitingUpdate :
              /\ TargetBytes(Top.controlData.m_awaitingUpdate[i]) \cap written = {}
              /\ TargetBytes(Top.controlData.m_awaitingUpdate[i]) \subseteq written']_vars

\* the bytes of md from offset a up to offset b, b excluded
Bytes(md, a, b) == SubSeq(md, a + 1, b)

Zeros(n) == [i \in 1..n |-> 0]

\* C28: opening a block appends exactly one 8-byte entry holding the PC
\* just after the block header and creates a scope with an empty awaiting
\* list and no pending placeholder; opening an if appends exactly 16
\* bytes, an 8-byte zeroed placeholder whose offset becomes the scope's
\* pending offset, then an 8-byte entry holding the PC just after the if
\* header.
C28_OpenBlockAndIf ==
    [][lastOp' \in {"Block", "If"} =>
          LET size == Len(m_metadata)
              scope == controlStack'[Len(controlStack')].controlData
              nextPC == offset' - m_bytecodeOffset
          IN  /\ Len(controlStack') = Len(controlStack) + 1
              /\ SubSeq(controlStack', 1, Len(controlStack)) = controlStack
              /\ Bytes(m_metadata', 0, size) = m_metadata
              /\ scope.m_awaitingUpdate = <<>>
              /\ scope.m_blockType = lastOp'
              /\ lastOp' = "Block" =>
                     /\ Len(m_metadata') = size + 8
                     /\ ReadField(m_metadata', size, 4) = nextPC
                     /\ Bytes(m_metadata', size + 4, size + 8) = Zeros(4)
                     /\ scope.m_pendingOffset = -1
              /\ lastOp' = "If" =>
                     /\ Len(m_metadata') = size + 16
                     /\ Bytes(m_metadata', size, size + 8) = Zeros(8)
                     /\ scope.m_pendingOffset = size
                     /\ ReadField(m_metadata', size + 8, 4) = nextPC
                     /\ Bytes(m_metadata', size + 12, size + 16) = Zeros(4)]_vars

\* an if just opened inside a block, after other entries were appended
C28_Witness ==
    /\ lastOp = "If"
    /\ Len(controlStack) = 3
    /\ controlStack[2].controlData.m_blockType = "Block"
    /\ Top.controlData.m_pendingOffset > 8

\* the scope of scopeLog that the control stack entry k stands for
ScopeOf(k) == scopeLog[controlStack[k].id]

\* C29: the else transition keeps the scope's awaiting list: a branch
\* registered against an if scope in its then-arm is still in the scope's
\* awaiting list after else, and is written with the scope's exit
\* coordinates when the matching end is processed.
C29_ElseKeepsAwaiting ==
    /\ \A k \in DOMAIN controlStack :
           ScopeOf(k).elseSeen /\ ~ScopeOf(k).elseAtEnd =>
               \A b \in BranchesTo(controlStack[k].id) :
                   \E i \in DOMAIN AwaitingOf(controlStack)[k] :
                       AwaitingOf(controlStack)[k][i] = b.off
    /\ \A s \in Scopes :
           s.kind = "If" /\ s.elseSeen /\ ~s.elseAtEnd /\ s.closed =>
               \A b \in Branches :
                   scopeLog[b.target] = s /\ b.off < s.elseMCBefore =>
                       /\ EntryPC(b.off) = s.endPC
                       /\ EntryMC(b.off) = s.endMC

\* C30: when the end of an if-else construct is processed (a Block scope
\* that holds the pending placeholder else allocated), that placeholder is
\* written with the PC of the end opcode and the current metadata size,
\* and the if's own placeholder, written at else, is not modified again.
C30_EndOfIfElse ==
    [][/\ lastOp' = "end"
       /\ Len(controlStack') < Len(controlStack)
       /\ isBlock(Top.controlData)
       /\ Top.controlData.m_pendingOffset # -1
       =>
          LET pending == Top.controlData.m_pendingOffset
              own == scopeLog[Top.id].placeholder
          IN  /\ scopeLog[Top.id].kind = "If"
              /\ pending = scopeLog[Top.id].elseMCBefore
              /\ ReadField(m_metadata', pending, 4) = offset - m_bytecodeOffset
              /\ offset' = offset + 1
              /\ ReadField(m_metadata', pending + 4, 4) = Len(m_metadata)
              /\ Len(m_metadata') = Len(m_metadata)
              /\ Bytes(m_metadata', own, own + 8) = Bytes(m_metadata, own, own + 8)
              /\ ReadField(m_metadata', own, 4) = scopeLog[Top.id].elsePC
              /\ ReadField(m_metadata', own + 4, 4) = scopeLog[Top.id].elseMCAfter]_vars

\* an if-else closed after entries were appended in its else arm
C30_Witness ==
    \E s \in Scopes :
        /\ s.kind = "If" /\ s.elseSeen /\ ~s.elseAtEnd /\ s.closed
        /\ s.endMC > s.elseMCAfter
        /\ EntryMC(s.elseMCBefore) = s.endMC
        /\ EntryPC(s.placeholder) = s.elsePC

\* the steps a scope's kind may take
KindStep(a, b) ==
    \/ a = b
    \/ a = "If" /\ b = "Block"
    \/ a = "Try" /\ b = "Catch"

\* the kinds a scope opened as kind may have later
KindsFrom(kind) ==
    IF kind = "If" THEN {"If", "Block"}
    ELSE IF kind = "Try" THEN {"Try", "Catch"}
    ELSE {kind}

\* C31: an If scope can only become Block and never reverts, a Try scope
\* can only become Catch, Loop, Block and TopLevel scopes never change
\* kind, and a Loop scope holds no pending placeholder at any time between
\* its open and its end.
C31_KindTransitions ==
    /\ [](\A k \in DOMAIN controlStack :
              /\ controlStack[k].controlData.m_blockType \in KindsFrom(ScopeOf(k).kind)
              /\ isLoop(controlStack[k].controlData) =>
                     controlStack[k].controlData.m_pendingOffset = -1)
    /\ [][\A k \in DOMAIN controlStack \cap DOMAIN controlStack' :
              controlStack'[k].id = controlStack[k].id =>
                  KindStep(controlStack[k].controlData.m_blockType,
                           controlStack'[k].controlData.m_blockType)]_vars

\* an if turned into a Block by its else, holding a try turned into a
\* Catch scope
C31_Witness ==
    /\ \E k \in DOMAIN controlStack :
           ScopeOf(k).kind = "If" /\ isBlock(controlStack[k].controlData)
    /\ \E k \in DOMAIN controlStack :
           /\ ScopeOf(k).kind = "Try"
           /\ controlStack[k].controlData.m_blockType = "Catch"

----------------------------------------------------------------------------
(* Sizes and layout of the operand-bearing entries                          *)

EightByteOps ==
    {"local.get", "local.set", "table.get", "table.set", "table.size", "table.grow",
     "table.fill", "elem.drop", "load", "store", "memory.init", "data.drop",
     "i32.const", "ref.func", "select", "Block", "Loop"}

SixteenByteOps == {"table.init", "table.copy", "i64.const"}

DocumentedSize(op) == IF op \in SixteenByteOps THEN 16 ELSE 8

LastEntry == entryLog[Len(entryLog)]

\* C32: each operand-bearing encoder appends exactly its documented
\* number of bytes and leaves the bytes before them alone: 8 for
\* local.get, local.set, table.get, table.set, table.size, table.grow,
\* table.fill, elem.drop, the loads and stores, memory.init, data.drop,
\* i32.const, ref.func, select, block and loop; 16 for table.init,
\* table.copy and i64.const.  table.init and table.copy store their first
\* index at byte 0, their second at byte 4 and the length of the
\* instruction as 8 bytes at byte 8.
C32_EncoderSizes ==
    [][(instrs' = instrs + 1 /\ lastOp' \in EightByteOps \cup SixteenByteOps) =>
          LET off == Len(m_metadata)
          IN  /\ Len(m_metadata') = off + DocumentedSize(lastOp')
              /\ Bytes(m_metadata', 0, off) = m_metadata
              /\ lastOp' \in {"table.init", "table.copy"} =>
                    LET e == entryLog'[Len(entryLog')]
                    IN  /\ e.off = off
                        /\ ReadField(m_metadata', off, 4) = e.index[1]
                        /\ ReadField(m_metadata', off + 4, 4) = e.index[2]
                        /\ ReadField(m_metadata', off + 8, 4) = e.sig
                        /\ Bytes(m_metadata', off + 12, off + 16) = Zeros(4)]_vars

C32_Witness ==
    /\ lastOp = "table.copy"
    /\ LastEntry.index[1] # LastEntry.index[2]
    /\ Len(m_metadata) = LastEntry.off + 16
    /\ \E i \in DOMAIN entryLog : entryLog[i].op \in EightByteOps

----------------------------------------------------------------------------
(* Patch sites                                                              *)

\* the 4-byte fields that belong to scope id: the PC and MC of its if
\* placeholder, of its else placeholder and of every branch entry
\* registered against it
SitesOf(sl, bl, id) ==
    LET s == sl[id]
        starts == (IF s.placeholder >= 0 THEN {s.placeholder} ELSE {})
                  \cup (IF s.elseSeen /\ ~s.elseAtEnd THEN {s.elseMCBefore} ELSE {})
                  \cup {bl[i].off : i \in {j \in DOMAIN bl : bl[j].target = id}}
    IN  starts \cup {o + 4 : o \in starts}

NewPatchIndices == DOMAIN patchLog' \ DOMAIN patchLog

\* C33: every patch site (the if placeholder, the else placeholder, the
\* PC/MC pair of a branch entry) is written at most once, and an else or an
\* end processed for a scope writes only patch sites of that scope, never
\* one that belongs to an enclosing or a sibling scope.
C33_PatchSites ==
    /\ [](\A i, j \in DOMAIN patchLog :
              i # j => Filled(patchLog[i].dst, patchLog[i].w)
                         \cap Filled(patchLog[j].dst, patchLog[j].w) = {})
    /\ [][\A i \in NewPatchIndices :
              /\ patchLog'[i].w = 4
              /\ patchLog'[i].dst \in SitesOf(scopeLog', branchLog', Top.id)
              /\ \A id \in DOMAIN scopeLog' \ {Top.id} :
                     patchLog'[i].dst \notin SitesOf(scopeLog', branchLog', id)]_vars

\* an inner block's end has written the entry of a branch to the block
\* while the entry of a branch to the enclosing scope is still unwritten
C33_Witness ==
    /\ lastOp = "end"
    /\ Len(controlStack) = 1
    /\ Top.controlData.m_awaitingUpdate # <<>>
    /\ \A k \in DOMAIN Top.controlData.m_awaitingUpdate :
           ~PairWritten(Top.controlData.m_awaitingUpdate[k])
    /\ \E i \in DOMAIN patchLog :
           /\ patchLog[i].op = "end"
           /\ \E b \in Branches : b.off = patchLog[i].dst /\ b.target # Top.id

\* the bytes an end of the scope on top of the control stack may write:
\* bytes 0..7 of the entries awaiting the scope, and its pending placeholder
EndFrame ==
    UNION {TargetBytes(Top.controlData.m_awaitingUpdate[k]) :
               k \in DOMAIN Top.controlData.m_awaitingUpdate}
    \cup (IF Top.controlData.m_pendingOffset >= 0
          THEN TargetBytes(Top.controlData.m_pendingOffset) ELSE {})

\* C34: the end of a scope changes, of the bytes already in the stream,
\* only bytes 0..7 of the branch entries awaiting that scope (and the
\* scope's own pending placeholder): bytes 8..15 of every branch entry
\* (pop count, arity, resume PC) and every byte of every entry that targets
\* another scope are as before.
C34_EndFrame ==
    [][lastOp' = "end" /\ Len(controlStack') < Len(controlStack) =>
          /\ \A p \in 0..(Len(m_metadata) - 1) :
                 m_metadata'[p + 1] # m_metadata[p + 1] => p \in EndFrame
          /\ \A i \in DOMAIN branchLog :
                 /\ Bytes(m_metadata', branchLog[i].off + 8, branchLog[i].off + 16)
                      = Bytes(m_metadata, branchLog[i].off + 8, branchLog[i].off + 16)
                 /\ branchLog[i].target # Top.id =>
                       Bytes(m_metadata', branchLog[i].off, branchLog[i].off + 16)
                         = Bytes(m_metadata, branchLog[i].off, branchLog[i].off + 16)]_vars

\* an end has written the pair of a branch entry whose pop count or arity
\* is not zero, while an entry targeting another scope is in the stream
C34_Witness ==
    /\ lastOp = "end"
    /\ \E i \in DOMAIN patchLog, b1, b2 \in Branches :
           /\ patchLog[i].op = "end"
           /\ patchLog[i].dst = b1.off
           /\ EntryPop(b1.off) + EntryArity(b1.off) > 0
           /\ b2.target # b1.target

WrittenBranches == {b \in Branches : PairWritten(b.off)}

\* C35: the MC written into a branch entry that targets a block or the
\* top level is at least the entry's offset plus 16 (it points forward,
\* past the entry); the MC written into an entry that targets a loop is at
\* most the entry's own offset (it points backward); and every MC written,
\* into a branch entry or into the placeholder of an if or an else, is at
\* most the length of the metadata stream.
C35_Direction ==
    /\ \A b \in WrittenBranches :
           /\ scopeLog[b.target].kind \in {"Block", "If", "TopLevel"} =>
                 EntryMC(b.off) >= b.off + 16
           /\ scopeLog[b.target].kind = "Loop" => EntryMC(b.off) <= b.off
           /\ EntryMC(b.off) <= Len(m_metadata)
    /\ \A i \in DOMAIN patchLog :
           patchLog[i].dst % EntrySize = 4 =>
               ReadField(m_metadata, patchLog[i].dst, 4) <= Len(m_metadata)

\* the parse is over, with a written branch to a loop and a written branch
\* to a block or to the top level
C35_Witness ==
    /\ pc = "done"
    /\ \E b1, b2 \in WrittenBranches :
           /\ scopeLog[b1.target].kind = "Loop"
           /\ scopeLog[b2.target].kind \in {"Block", "TopLevel"}
           /\ EntryMC(b2.off) > EntryMC(b1.off)

----------------------------------------------------------------------------
(* Slots of the locals                                                      *)

\* the slot local.get and local.set record for a local index
GetSlot(index) == ReadField(getLocal(<<>>, index, 2).md, 0, 4)
SetSlot(index) == ReadField(setLocal(<<>>, index, 2).md, 0, 4)

LocalIndices == 0..(m_numLocals - 1)

\* C36: once the arguments are laid out, the slots recorded by local.get
\* and local.set are injective over the local indices; an argument's slot
\* is in 0..7 exactly when it is integer-typed and register-passed, in
\* 8..15 when it is register-passed and not integer-typed, otherwise in
\* 16..15+numArgumentsOnStack; the slot of a non-argument local is at
\* least 16+numArgumentsOnStack.  The entries already in the stream hold
\* these slots.
C36_SlotsInjective ==
    pc # "args" =>
        /\ \A i, j \in LocalIndices : i # j => GetSlot(i) # GetSlot(j)
        /\ \A i \in LocalIndices :
               /\ SetSlot(i) = GetSlot(i)
               /\ i < m_numArguments =>
                     /\ GetSlot(i) \in 0..(15 + m_numArgumentsOnStack)
                     /\ GetSlot(i) \in 0..7 => IsInteger(signature.args[i + 1])
                     /\ GetSlot(i) \in 8..15 => ~IsInteger(signature.args[i + 1])
               /\ i >= m_numArguments => GetSlot(i) >= 16 + m_numArgumentsOnStack
        /\ \A e \in LocalEntries : EntrySlot(e.off) = GetSlot(e.index)

\* the stream holds the entry of a stack-passed argument and that of a
\* declared local, and the function has register-passed arguments of both
\* kinds
C36_Witness ==
    /\ \E e1, e2 \in LocalEntries :
           /\ e1.index < m_numArguments /\ EntrySlot(e1.off) >= 16
           /\ e2.index >= m_numArguments
           /\ EntrySlot(e2.off) > EntrySlot(e1.off)
    /\ \E i, j \in 0..(m_numArguments - 1) : GetSlot(i) \in 0..7 /\ GetSlot(j) \in 8..15

\* the parameters that were given a register slot
RegisterAssigned ==
    {i \in DOMAIN m_argumentLocations : m_argumentLocations[i] < 16}

\* C37: after addArguments, numArgumentsOnStack is at most numArguments;
\* the register-assigned parameters number numArguments minus
\* numArgumentsOnStack and at most 16; the non-argument base offset is 16
\* minus that number and is never negative.  addArguments adds numArguments
\* to numLocals, each addLocal adds its count, and nothing else changes
\* numLocals, so numLocals is numArguments plus the counts of the addLocal
\* calls.
C37_ArgumentCounts ==
    /\ [](pc # "args" =>
            /\ m_numArguments = argumentCount(signature)
            /\ m_numArgumentsOnStack <= m_numArguments
            /\ Cardinality(RegisterAssigned) = m_numArguments - m_numArgumentsOnStack
            /\ Cardinality(RegisterAssigned) <= 16
            /\ m_nonArgLocalOffset = 16 - Cardinality(RegisterAssigned)
            /\ m_nonArgLocalOffset >= 0
            /\ m_numLocals >= m_numArguments)
    /\ [](pc = "args" => m_numLocals = 0)
    /\ [][IF pc = "args" THEN m_numLocals' = m_numArguments'
          ELSE IF lastOp' = "addLocal" /\ offset' # offset
               THEN m_numLocals' - m_numLocals \in LocalCounts
               ELSE m_numLocals' = m_numLocals]_vars

\* sixteen parameters in registers, others on the stack, and locals declared
C37_Witness ==
    /\ pc # "args"
    /\ Cardinality(RegisterAssigned) = 16
    /\ m_numArgumentsOnStack > 0
    /\ m_nonArgLocalOffset = 0
    /\ m_numLocals > m_numArguments

====
